---- MODULE Spec2Model ----
(***************************************************************************)
(* Model of backend/backend/utils/numbers_and_dates.py: the Portuguese     *)
(* number/date formatting layer and the cost/date pipeline.                *)
(*                                                                         *)
(* Python values are modelled exactly: int is an unbounded integer, float  *)
(* is an IEEE-754 binary64 (53-bit significand, round-to-nearest-even),    *)
(* Decimal is a sign/coefficient/exponent triple under the default context *)
(* (28 significant digits) and str is a sequence of characters.  Unbounded *)
(* naturals are little-endian sequences of limbs in base 2^15.             *)
(***************************************************************************)
EXTENDS Integers, Sequences, FiniteSets, TLC

(***************************************************************************)
(* Unbounded naturals.  The operators recurse over limbs or over groups of *)
(* four decimal digits only, which keeps the evaluation shallow.           *)
(***************************************************************************)
Base == 2^15

Max(a, b) == IF a >= b THEN a ELSE b

\* the index of the highest non-zero limb of a (0: none)
BTop(a) ==
    IF \A i \in 1..Len(a) : a[i] = 0 THEN 0
    ELSE CHOOSE i \in 1..Len(a) : a[i] # 0 /\ \A j \in (i + 1)..Len(a) : a[j] = 0

BNorm(a) == SubSeq(a, 1, BTop(a))

BOfInt(n) ==
    BNorm(<<n % Base, (n \div Base) % Base, n \div (Base * Base)>>)

BLimb(a, i) == IF i <= Len(a) THEN a[i] ELSE 0

BToInt(a) == BLimb(a, 1) + Base * BLimb(a, 2)

BCmp(a, b) ==
    IF Len(a) < Len(b) THEN -1
    ELSE IF Len(a) > Len(b) THEN 1
    ELSE IF a = b THEN 0
    ELSE LET i == CHOOSE i \in 1..Len(a) :
                      a[i] # b[i] /\ \A j \in (i + 1)..Len(a) : a[j] = b[j]
         IN  IF a[i] < b[i] THEN -1 ELSE 1

\* a + b; the carry into limb i is found by look-ahead over the limb sums
BAdd(a, b) ==
    LET n      == Max(Len(a), Len(b))
        s(i)   == BLimb(a, i) + BLimb(b, i)
        cin(i) == IF \E j \in 1..(i - 1) :
                       s(j) >= Base /\ \A m \in (j + 1)..(i - 1) : s(m) = Base - 1
                  THEN 1 ELSE 0
    IN  BNorm([i \in 1..(n + 1) |-> (s(i) + cin(i)) % Base])

\* a * k for 0 <= k < Base
BMulSmall(a, k) ==
    BAdd([i \in 1..Len(a) |-> (a[i] * k) % Base],
         [i \in 1..(Len(a) + 1) |-> IF i = 1 THEN 0 ELSE (a[i - 1] * k) \div Base])

RECURSIVE BMulFrom(_, _, _)
BMulFrom(a, b, i) ==
    IF i > Len(b) THEN <<>>
    ELSE BAdd(BMulSmall(a, b[i]), <<0>> \o BMulFrom(a, b, i + 1))

BMul(a, b) == IF a = <<>> \/ b = <<>> THEN <<>> ELSE BNorm(BMulFrom(a, b, 1))

RECURSIVE BPowMod(_, _)
\* Base^t modulo k, by halving t
BPowMod(t, k) ==
    IF t = 0 THEN 1 % k
    ELSE IF t = 1 THEN Base % k
    ELSE (BPowMod(t \div 2, k) * BPowMod(t - t \div 2, k)) % k

RECURSIVE BRemRange(_, _, _, _)
\* the limbs i..j of a, modulo k, by halving the range
BRemRange(a, k, i, j) ==
    IF i > j THEN 0
    ELSE IF i = j THEN a[i] % k
    ELSE LET mid == (i + j) \div 2
         IN  (BRemRange(a, k, mid + 1, j) * BPowMod(mid + 1 - i, k)
                  + BRemRange(a, k, i, mid)) % k

\* the limbs of a from i upwards, modulo k
BRemFrom(a, k, i) == BRemRange(a, k, i, Len(a))

\* the quotient and remainder of a by k from the remainders of its upper parts
BDivRems(a, k, rem) ==
    [q |-> BNorm([i \in 1..Len(a) |-> (rem[i + 1] * Base + a[i]) \div k]),
     r |-> rem[1]]

\* quotient and remainder of a by k, for 0 < k <= Base
BDivSmall(a, k) == BDivRems(a, k, [i \in 1..(Len(a) + 1) |-> BRemFrom(a, k, i)])

SmallBitLen(n) == CHOOSE b \in 0..31 : 2^b > n /\ (b = 0 \/ 2^(b - 1) <= n)

BBitLen(a) ==
    IF a = <<>> THEN 0 ELSE 15 * (Len(a) - 1) + SmallBitLen(a[Len(a)])

BIsOdd(a) == a # <<>> /\ a[1] % 2 = 1

\* a * 2^k
BShl(a, k) ==
    IF a = <<>> THEN <<>>
    ELSE [i \in 1..(k \div 15) |-> 0] \o BMulSmall(a, 2^(k % 15))

\* a quotient with its remainder as a sticky flag, joined with the flag low
Sticky(d, low) == [q |-> d.q, st |-> low \/ d.r # 0]

\* a quotient and sticky flag, joined with the flag st
OrSticky(b, st) == [q |-> b.q, st |-> st \/ b.st]

\* the limbs of a above the lowest w
BHigh(a, w) == IF w >= Len(a) THEN <<>> ELSE SubSeq(a, w + 1, Len(a))

\* floor(a / 2^k), and whether any bit was shifted out
BShr(a, k) ==
    Sticky(BDivSmall(BHigh(a, k \div 15), 2^(k % 15)),
           \E i \in 1..(k \div 15) : BLimb(a, i) # 0)

RECURSIVE BMulPow10(_, _)
BMulPow10(a, k) ==
    IF k = 0 \/ a = <<>> THEN a
    ELSE IF k >= 4 THEN BMulPow10(BMulSmall(a, 10000), k - 4)
    ELSE BMulSmall(a, 10^k)

RECURSIVE BDivPow10(_, _)
\* floor(d.q / 10^k), and whether that or the division that gave d left a
\* remainder
BDivPow10Rest(d, k) == OrSticky(BDivPow10(d.q, k), d.r # 0)

\* floor(a / 10^k), and whether the division left a remainder
BDivPow10(a, k) ==
    IF k = 0 \/ a = <<>> THEN [q |-> a, st |-> FALSE]
    ELSE IF k >= 4 THEN BDivPow10Rest(BDivSmall(a, 10000), k - 4)
    ELSE Sticky(BDivSmall(a, 10^k), FALSE)

RECURSIVE BGroups(_)
BGroupsOf(d) == Append(BGroups(d.q), d.r)

\* a in base 10^4, most significant group first
BGroups(a) == IF a = <<>> THEN <<>> ELSE BGroupsOf(BDivSmall(a, 10000))

SmallDigitCount(n) == CHOOSE c \in 0..10 : 10^c > n /\ (c = 0 \/ 10^(c - 1) <= n)

\* the decimal digits of the groups g, without leading zeros
DigitsOfGroups(g) ==
    LET pad == IF g = <<>> THEN 0 ELSE 4 - SmallDigitCount(g[1])
    IN  [i \in 1..(4 * Len(g) - pad) |->
            (g[(i + pad - 1) \div 4 + 1] \div 10^(3 - ((i + pad - 1) % 4))) % 10]

\* the decimal digits of a, most significant first (<<>> for zero)
BDecDigits(a) == DigitsOfGroups(BGroups(a))

\* the number below 10^4 whose digits are ds[from..to]
SmallOfDigits(ds, from, to) ==
    LET d(i) == IF from <= i /\ i <= to THEN ds[i] ELSE 0
    IN  1000 * d(to - 3) + 100 * d(to - 2) + 10 * d(to - 1) + d(to)

RECURSIVE BOfDigitsAcc(_, _, _)
BOfDigitsAcc(ds, i, acc) ==
    IF i > Len(ds) \/ Len(acc) < 0 THEN acc
    ELSE BOfDigitsAcc(ds, i + 4,
             BAdd(BMulSmall(acc, 10000), BOfInt(SmallOfDigits(ds, i, i + 3))))

\* the natural whose decimal digits are ds, most significant first
BOfDigits(ds) ==
    BOfDigitsAcc(ds, (Len(ds) % 4) + 1, BOfInt(SmallOfDigits(ds, 1, Len(ds) % 4)))

(***************************************************************************)
(* Python float: IEEE-754 binary64.  A finite float is neg, m, e with      *)
(* value (-1)^neg * m * 2^e, m < 2^53, normalised so that m >= 2^52 unless *)
(* e = FEmin (subnormals) or m = 0 (e = 0).                                 *)
(***************************************************************************)
FBits == 53
FEmin == -1074
FEmax == 1024

FZero(neg) == [k |-> "fin", neg |-> neg, m |-> <<>>, e |-> 0]
FInf(neg)  == [k |-> "inf", neg |-> neg, m |-> <<>>, e |-> 0]
FNaN       == [k |-> "nan", neg |-> FALSE, m |-> <<>>, e |-> 0]

FFinite(neg, m, e) ==
    IF m = <<>> THEN FZero(neg)
    ELSE IF e + BBitLen(m) > FEmax THEN FInf(neg)
    ELSE [k |-> "fin", neg |-> neg, m |-> m, e |-> e]

\* h.q, or the next integer if the remainder h.r of the halving is a tie
\* broken upwards (st: further non-zero bits below) or to even
RoundUpIf(h, st) ==
    IF h.r = 1 /\ (st \/ BIsOdd(h.q)) THEN BAdd(h.q, <<1>>) ELSE h.q

\* floor(s.q / 2) rounded to nearest, ties to even; s.st says that the value
\* halved had further non-zero bits below s.q
RoundHalfEven2(s) == RoundUpIf(BDivSmall(s.q, 2), s.st)

\* the float of significand m1 (at most one bit too long) and exponent e1
FRenorm(neg, m1, e1) ==
    IF BBitLen(m1) > FBits THEN FFinite(neg, BDivSmall(m1, 2).q, e1 + 1)
    ELSE FFinite(neg, m1, e1)

\* the float nearest to n * 2^e with the sh lowest bits of n rounded off
FRoundBy(neg, n, e, st, sh) ==
    IF sh <= 0 THEN FFinite(neg, BShl(n, -sh), e + sh)
    ELSE FRenorm(neg, RoundHalfEven2(OrSticky(BShr(n, sh - 1), st)), e + sh)

\* the float nearest to n * 2^e (st: the exact value is slightly above it)
FRound(neg, n, e, st) ==
    IF n = <<>> THEN FZero(neg)
    ELSE FRoundBy(neg, n, e, st, Max(BBitLen(n) - FBits, FEmin - e))

\* the float nearest to d.q * 2^e, d.st saying that the exact value is above
FRoundSticky(neg, d, e) == FRound(neg, d.q, e, d.st)

\* the bits by which c is scaled up before the division by 10^(-x)
DecScale(c, x) == Max(0, FBits + 3 + 4 * (-x) - BBitLen(c))

\* float(c * 10^x), correctly rounded
DecToFloat(neg, c, x) ==
    IF c = <<>> THEN FZero(neg)
    ELSE FRoundSticky(neg,
             IF x >= 0 THEN [q |-> BMulPow10(c, x), st |-> FALSE]
             ELSE BDivPow10(BShl(c, DecScale(c, x)), -x),
             IF x >= 0 THEN 0 ELSE -DecScale(c, x))

\* a * b on floats
FloatMul(a, b) ==
    IF a.k = "nan" \/ b.k = "nan" THEN FNaN
    ELSE IF a.k = "inf" \/ b.k = "inf"
    THEN (IF (a.k = "fin" /\ a.m = <<>>) \/ (b.k = "fin" /\ b.m = <<>>)
          THEN FNaN ELSE FInf(a.neg # b.neg))
    ELSE FRound(a.neg # b.neg, BMul(a.m, b.m), a.e + b.e, FALSE)

\* floor(n * 2^e), and whether anything was cut off
BScale2(n, e) == IF e >= 0 THEN [q |-> BShl(n, e), st |-> FALSE] ELSE BShr(n, -e)

\* the integer part of |f|, f finite
FIntPart(f) == BScale2(f.m, f.e).q

\* floor(a.q / 10^k), and whether that or what gave a cut anything off
BDivPow10Sticky(a, k) == OrSticky(BDivPow10(a.q, k), a.st)

\* floor(2 * |f| * 10^j), and whether anything was cut off
FScaled2(f, j) ==
    BDivPow10Sticky(BScale2(IF j >= 0 THEN BMulPow10(f.m, j) ELSE f.m, f.e + 1),
                    IF j >= 0 THEN 0 ELSE -j)

\* the least element of a non-empty set of integers
SetMin(S) == CHOOSE j \in S : \A i \in S : j <= i

\* the least j >= j0 with |f| * 10^j >= 1, which is at most j0 + 2
FLeadFrom(f, j0) == SetMin({j \in j0..(j0 + 2) : FScaled2(f, j).q \notin {<<>>, <<1>>}})

\* the least j >= 1 with |f| * 10^j >= 1, for 0 < |f| < 1: with |f| in
\* [2^(E-1), 2^E) it lies within two of floor(-E * log10(2))
FLead(f) == FLeadFrom(f, Max(1, ((-(f.e + BBitLen(f.m))) * 30103) \div 100000))

\* n if positive, else alt
IfPositive(n, alt) == IF n > 0 THEN n ELSE alt

\* the k with 10^(k-1) <= |f| < 10^k, f finite and non-zero
FDecExp(f) == IfPositive(Len(BDecDigits(FIntPart(f))), 1 - FLead(f))

\* |f| to n significant digits, k being FDecExp(f)
FCandidate(f, k, n) == RoundHalfEven2(FScaled2(f, n - k))

\* the n-digit decimal of f reads back as f
FReadsBack(f, k, n) == n = 17 \/ DecToFloat(f.neg, FCandidate(f, k, n), k - n) = f

\* the shortest decimal of f, k being FDecExp(f)
FShortestOf(f, k, n) == [k |-> "fin", neg |-> f.neg, c |-> FCandidate(f, k, n), x |-> k - n]

FShortestFrom(f, k) == FShortestOf(f, k, SetMin({n \in 1..17 : FReadsBack(f, k, n)}))

\* repr(f): the shortest decimal c * 10^x that reads back as f (17 digits
\* always do), and among those of that length the one nearest to f
FShortest(f) == FShortestFrom(f, FDecExp(f))

(***************************************************************************)
(* Python values.  Every value is a record of one shape:                   *)
(*   NoneType                                                              *)
(*   int    neg, m           the integer (-1)^neg * m                      *)
(*   float  k, neg, m, e     see above                                     *)
(*   str    s                                                              *)
(*   dict   ref              a reference to a dict of the heap             *)
(* A call returns Return(v) or Raise(e).                                   *)
(***************************************************************************)
PyValue(t, k, neg, m, e, s, ref) ==
    [t |-> t, k |-> k, neg |-> neg, m |-> m, e |-> e, s |-> s, ref |-> ref]

PyNone        == PyValue("NoneType", "", FALSE, <<>>, 0, "", 0)
PyInt(neg, m) == PyValue("int", "", neg /\ m # <<>>, m, 0, "", 0)
PyFloat(f)    == PyValue("float", f.k, f.neg, f.m, f.e, "", 0)
PyStr(s)      == PyValue("str", "", FALSE, <<>>, 0, s, 0)
PyRef(r)      == PyValue("dict", "", FALSE, <<>>, 0, "", r)
PyBool(b)     == PyValue("bool", "", FALSE, IF b THEN <<1>> ELSE <<>>, 0, "", 0)

Return(v) == [exc |-> "", val |-> v]
Raise(e)  == [exc |-> e, val |-> PyNone]

Digits == "0123456789"
DigitChar(d) == SubSeq(Digits, d + 1, d + 1)
CharAt(s, i) == IF 1 <= i /\ i <= Len(s) THEN SubSeq(s, i, i) ELSE ""
IsDigit(c) == \E i \in 1..10 : SubSeq(Digits, i, i) = c
DigitVal(c) == (CHOOSE i \in 1..10 : SubSeq(Digits, i, i) = c) - 1

RECURSIVE DigitsToStr(_)
DigitsToStr(ds) ==
    IF Len(ds) = 0 THEN ""
    ELSE IF Len(ds) = 1 THEN DigitChar(ds[1])
    ELSE DigitsToStr(SubSeq(ds, 1, Len(ds) \div 2))
             \o DigitsToStr(SubSeq(ds, Len(ds) \div 2 + 1, Len(ds)))

StrToDigits(s) == [i \in 1..Len(s) |-> DigitVal(SubSeq(s, i, i))]

RECURSIVE Zeros(_)
Zeros(n) ==
    IF n <= 0 THEN "" ELSE IF n = 1 THEN "0"
    ELSE Zeros(n \div 2) \o Zeros(n - n \div 2)

\* str(n) for a non-negative int
NatStr(a) == IF a = <<>> THEN "0" ELSE DigitsToStr(BDecDigits(a))

\* str(n) for an int
IntStr(neg, a) == (IF neg /\ a # <<>> THEN "-" ELSE "") \o NatStr(a)

\* the number of trailing zeros of the digits ds
TrailingZeros(ds) ==
    CHOOSE z \in 0..Len(ds) :
        /\ \A i \in (Len(ds) - z + 1)..Len(ds) : ds[i] = 0
        /\ (z = Len(ds) \/ ds[Len(ds) - z] # 0)

\* the decimal d without the last z digits of its coefficient, all zero
DropZeros(d, z) == [d EXCEPT !.c = BDivPow10(d.c, z).q, !.x = d.x + z]

\* a decimal c * 10^x without the trailing zeros of c
StripZeros(d) == DropZeros(d, TrailingZeros(BDecDigits(d.c)))

\* s, with a leading 0 if it is a single character
Pad2(s) == IF Len(s) < 2 THEN "0" \o s ELSE s

\* the exponent of repr: sign and at least two digits
ReprExponent(ex) ==
    (IF ex < 0 THEN "-" ELSE "+") \o Pad2(NatStr(BOfInt(IF ex < 0 THEN -ex ELSE ex)))

\* the digits ds * 10^x in the notation of repr: fixed when the decimal point
\* falls within (-4, 16], else exponent notation
ReprDigits(sign, ds, x) ==
    LET n     == Len(ds)
        decpt == n + x
    IN  IF -4 < decpt /\ decpt <= 16
        THEN (IF decpt <= 0 THEN sign \o "0." \o Zeros(-decpt) \o ds
              ELSE IF decpt >= n THEN sign \o ds \o Zeros(decpt - n) \o ".0"
              ELSE sign \o SubSeq(ds, 1, decpt) \o "." \o SubSeq(ds, decpt + 1, n))
        ELSE sign \o SubSeq(ds, 1, 1)
                  \o (IF n > 1 THEN "." \o SubSeq(ds, 2, n) ELSE "")
                  \o "e" \o ReprExponent(decpt - 1)

\* the decimal r in the notation of repr
ReprDecimal(sign, r) == ReprDigits(sign, NatStr(r.c), r.x)

\* repr(f) of a float: the shortest digits that read back as f
float_repr(v) ==
    IF v.k = "nan" THEN "nan"
    ELSE IF v.k = "inf" THEN (IF v.neg THEN "-inf" ELSE "inf")
    ELSE IF v.m = <<>> THEN (IF v.neg THEN "-0.0" ELSE "0.0")
    ELSE ReprDecimal(IF v.neg THEN "-" ELSE "",
             StripZeros(FShortest([k |-> v.k, neg |-> v.neg, m |-> v.m, e |-> v.e])))

\* str(v)
py_str(v) ==
    CASE v.t = "NoneType" -> "None"
      [] v.t = "str"      -> v.s
      [] v.t = "int"      -> IntStr(v.neg, v.m)
      [] v.t = "float"    -> float_repr(v)

(***************************************************************************)
(* decimal.Decimal under the default context: k, neg, c, x with value      *)
(* (-1)^neg * c * 10^x when k = "fin".                                     *)
(***************************************************************************)
DecimalPrec == 28

DecFin(neg, c, x) == [k |-> "fin", neg |-> neg, c |-> c, x |-> x]
DecSpecial(k, neg) == [k |-> k, neg |-> neg, c |-> <<>>, x |-> 0]

\* s.strip(), blanks only
Strip(s) ==
    LET ink == {i \in 1..Len(s) : SubSeq(s, i, i) # " "}
    IN  IF ink = {} THEN ""
        ELSE SubSeq(s, CHOOSE i \in ink : \A j \in ink : i <= j,
                       CHOOSE i \in ink : \A j \in ink : j <= i)

\* the first index >= i of s that holds no digit
DigitRunEnd(s, i) ==
    CHOOSE j \in i..Max(i, Len(s) + 1) :
        /\ \A m \in i..(j - 1) : IsDigit(CharAt(s, m))
        /\ ~IsDigit(CharAt(s, j))

\* the digits s[i..j-1] as a small integer
SmallOfStr(s, i, j) == BToInt(BOfDigits(StrToDigits(SubSeq(s, i, j - 1))))

\* the decimal of the digits with the exponent x given in the literal
DecimalOfDigits(neg, digits, places, x) ==
    Return(DecFin(neg, BOfDigits(StrToDigits(digits)), x - places))

\* the exponent part of a Decimal literal: s[k1..] must be digits to the end
DecimalExponent(s, neg, digits, places, expneg, k1, k2) ==
    IF k2 = k1 \/ k2 <= Len(s) THEN Raise("InvalidOperation")
    ELSE DecimalOfDigits(neg, digits, places,
             IF expneg THEN -SmallOfStr(s, k1, k2) ELSE SmallOfStr(s, k1, k2))

\* the number part of a Decimal literal: digits s[i1..j1-1], and after a
\* '.' at j1 the digits up to j2
DecimalNumber(s, neg, i1, j1, j2) ==
    LET int  == SubSeq(s, i1, j1 - 1)
        frac == IF j2 > j1 THEN SubSeq(s, j1 + 1, j2 - 1) ELSE ""
        k1   == IF CharAt(s, j2 + 1) \in {"-", "+"} THEN j2 + 2 ELSE j2 + 1
    IN  IF int = "" /\ frac = "" THEN Raise("InvalidOperation")
        ELSE IF CharAt(s, j2) \in {"e", "E"}
        THEN DecimalExponent(s, neg, int \o frac, Len(frac),
                             CharAt(s, j2 + 1) = "-", k1, DigitRunEnd(s, k1))
        ELSE IF j2 <= Len(s) THEN Raise("InvalidOperation")
        ELSE DecimalOfDigits(neg, int \o frac, Len(frac), 0)

\* the number part, its integer digits being s[i1..j1-1]
DecimalFrom(s, neg, i1, j1) ==
    DecimalNumber(s, neg, i1, j1,
                  IF CharAt(s, j1) = "." THEN DigitRunEnd(s, j1 + 1) ELSE j1)

\* a Decimal literal without surrounding blanks, after its sign
DecimalUnsigned(s, neg, i1) ==
    IF SubSeq(s, i1, Len(s)) \in {"inf", "Inf", "INF", "infinity", "Infinity"}
    THEN Return(DecSpecial("inf", neg))
    ELSE IF SubSeq(s, i1, Len(s)) \in {"nan", "NaN", "NAN"}
    THEN Return(DecSpecial("nan", neg))
    ELSE DecimalFrom(s, neg, i1, DigitRunEnd(s, i1))

\* a Decimal literal without surrounding blanks
DecimalLiteral(s) ==
    DecimalUnsigned(s, CharAt(s, 1) = "-", IF CharAt(s, 1) \in {"-", "+"} THEN 2 ELSE 1)

\* Decimal(s): [sign] digits [. digits] [e [sign] digits] | [sign] inf | nan,
\* surrounding blanks ignored; anything else is a ConversionSyntax
\* (decimal.InvalidOperation)
Decimal(str) == DecimalLiteral(Strip(str))

\* t.q, or the next integer if the digit t.r dropped is 5 or more
RoundUpFrom5(t) == IF t.r >= 5 THEN BAdd(t.q, <<1>>) ELSE t.q

\* c with its last drop digits rounded away, ties away from zero (drop > 0)
RoundHalfUp(c, drop) == RoundUpFrom5(BDivSmall(BDivPow10(c, drop - 1).q, 10))

\* the decimal c2 * 10^-2 if c2 fits the precision of the context
Quantized(neg, c2) ==
    IF Len(BDecDigits(c2)) > DecimalPrec THEN Raise("InvalidOperation")
    ELSE Return(DecFin(neg, c2, -2))

\* d.quantize(Decimal('0.01'), rounding=ROUND_HALF_UP): two fractional
\* digits, ties away from zero; InvalidOperation when the result would need
\* more than DecimalPrec digits, or d is infinite
quantize(d) ==
    IF d.k = "nan" THEN Return(d)
    ELSE IF d.k = "inf" THEN Raise("InvalidOperation")
    ELSE Quantized(d.neg, IF -2 - d.x <= 0 THEN BMulPow10(d.c, 2 + d.x)
                          ELSE RoundHalfUp(d.c, -2 - d.x))

\* float(d)
float_of_decimal(d) ==
    IF d.k = "nan" THEN FNaN
    ELSE IF d.k = "inf" THEN FInf(d.neg)
    ELSE DecToFloat(d.neg, d.c, d.x)

(***************************************************************************)
(* to_number and process_total_cost                                        *)
(***************************************************************************)
\* float(rounded_value)
to_number_float(rounded_value) ==
    IF rounded_value.exc # "" THEN Raise(rounded_value.exc)
    ELSE Return(PyFloat(float_of_decimal(rounded_value.val)))

\* decimal_value.quantize(...), then the conversion to float
to_number_rounded(decimal_value) ==
    IF decimal_value.exc # "" THEN Raise(decimal_value.exc)
    ELSE to_number_float(quantize(decimal_value.val))

to_number(variable) ==
    IF variable.t = "float" /\ variable.k = "inf" THEN Raise("ValueError")
    ELSE to_number_rounded(Decimal(py_str(variable)))

\* the float f as the result of float(n) of an int: OverflowError beyond the
\* float range
float_in_range(f) == IF f.k = "inf" THEN Raise("OverflowError") ELSE Return(PyFloat(f))

\* float(n) of an int
float_of_int(v) == float_in_range(FRound(v.neg, v.m, 0, FALSE))

\* float(v) of an int or a float
float_of_number(v) == IF v.t = "int" THEN float_of_int(v) ELSE Return(v)

RECURSIVE Repeat(_, _)
\* s * n for a str s
Repeat(s, n) ==
    IF n <= 0 \/ s = "" THEN "" ELSE IF n = 1 THEN s
    ELSE Repeat(s, n \div 2) \o Repeat(s, n - n \div 2)

\* s * n for a str s and an int n
str_times(s, n) ==
    IF n.neg \/ n.m = <<>> THEN Return(PyStr(""))
    ELSE IF Len(n.m) > 1 THEN Raise("MemoryError")
    ELSE Return(PyStr(Repeat(s.s, n.m[1])))

\* fa * fb for floats, unless the conversion to float raised
float_product(fa, fb) ==
    IF fa.exc # "" THEN fa
    ELSE IF fb.exc # "" THEN fb
    ELSE Return(PyFloat(FloatMul(fa.val, fb.val)))

\* a * b: int * int is exact, a float operand makes the product a float, a str
\* is repeated by an int, anything else is a TypeError
py_mul(a, b) ==
    IF a.t = "int" /\ b.t = "int"
    THEN Return(PyInt(a.neg # b.neg, BMul(a.m, b.m)))
    ELSE IF a.t = "str" /\ b.t = "int" THEN str_times(a, b)
    ELSE IF a.t = "int" /\ b.t = "str" THEN str_times(b, a)
    ELSE IF a.t \notin {"int", "float"} \/ b.t \notin {"int", "float"}
    THEN Raise("TypeError")
    ELSE float_product(float_of_number(a), float_of_number(b))

\* a faulty type check that only rejects None
IsNotNone(v) == v.t # "NoneType"

IsIntOrFloat(v) == v.t \in {"int", "float"}

\* return to_number(total_cost)
to_number_of_product(total_cost) ==
    IF total_cost.exc # "" THEN total_cost ELSE to_number(total_cost.val)

process_total_cost(qty, cost_per_unit) ==
    IF ~IsIntOrFloat(qty) \/ ~IsIntOrFloat(cost_per_unit) THEN Raise("TypeError")
    ELSE to_number_of_product(py_mul(qty, cost_per_unit))

(***************************************************************************)
(* Strings                                                                 *)
(***************************************************************************)
\* s[i..j] (1-based, inclusive), cut to the extent of s
Mid(s, i, j) ==
    IF i > j \/ i > Len(s) \/ j < 1 THEN ""
    ELSE SubSeq(s, Max(1, i), IF j > Len(s) THEN Len(s) ELSE j)

Contains(s, sub) ==
    \E i \in 1..(Len(s) - Len(sub) + 1) : SubSeq(s, i, i + Len(sub) - 1) = sub

StartsWith(s, sub) == Len(sub) <= Len(s) /\ SubSeq(s, 1, Len(sub)) = sub

EndsWith(s, sub) ==
    Len(sub) <= Len(s) /\ SubSeq(s, Len(s) - Len(sub) + 1, Len(s)) = sub

\* the first index at which sub occurs in s (0: nowhere)
Find(s, sub) ==
    LET at == {i \in 1..(Len(s) - Len(sub) + 1) : SubSeq(s, i, i + Len(sub) - 1) = sub}
    IN  IF at = {} THEN 0 ELSE CHOOSE i \in at : \A j \in at : i <= j

RECURSIVE Replace(_, _, _)
\* s.replace(old, new): every occurrence, left to right, old non-empty
Replace(s, old, new) ==
    LET i == Find(s, old)
    IN  IF i = 0 THEN s
        ELSE SubSeq(s, 1, i - 1) \o new
                 \o Replace(SubSeq(s, i + Len(old), Len(s)), old, new)

(***************************************************************************)
(* int(x) and f"{x:.2f}"                                                   *)
(***************************************************************************)
\* int(s) of a str without surrounding blanks: [sign] digits
int_of_str(s) ==
    LET i1 == IF CharAt(s, 1) \in {"-", "+"} THEN 2 ELSE 1
    IN  IF i1 > Len(s) \/ DigitRunEnd(s, i1) <= Len(s)
        THEN Raise("ValueError")
        ELSE Return(PyInt(CharAt(s, 1) = "-",
                          BOfDigits(StrToDigits(SubSeq(s, i1, Len(s))))))

\* int(x): a float is truncated toward zero, a str is parsed as
\* [sign] digits with surrounding blanks ignored
py_int(x) ==
    CASE x.t = "int" -> Return(x)
      [] x.t = "float" ->
            IF x.k = "nan" THEN Raise("ValueError")
            ELSE IF x.k = "inf" THEN Raise("OverflowError")
            ELSE Return(PyInt(x.neg, FIntPart(x)))
      [] x.t = "str" -> int_of_str(Strip(x.s))
      [] OTHER -> Raise("TypeError")

\* sign, digits, '.', two digits: ds are the digits of the hundredths
Fixed2(sign, ds) ==
    LET p == Zeros(3 - Len(ds)) \o ds
    IN  sign \o SubSeq(p, 1, Len(p) - 2) \o "." \o SubSeq(p, Len(p) - 1, Len(p))

\* f"{f:.2f}" of a float: the exact binary value rounded to 2 decimals, ties
\* to even
float_format_2f(f) ==
    IF f.k = "nan" THEN "nan"
    ELSE IF f.k = "inf" THEN (IF f.neg THEN "-inf" ELSE "inf")
    ELSE Fixed2(IF f.neg THEN "-" ELSE "",
                DigitsToStr(BDecDigits(IF f.m = <<>> THEN <<>>
                                       ELSE RoundHalfEven2(FScaled2(f, 2)))))

\* f"{f:.2f}" of the float f.val, unless the conversion to float raised
format_2f_of_float(f) ==
    IF f.exc # "" THEN f ELSE Return(PyStr(float_format_2f(f.val)))

\* f"{x:.2f}": an int is converted to float first; str and None have no
\* format code 'f'
format_2f(x) ==
    CASE x.t \in {"int", "float"} -> format_2f_of_float(float_of_number(x))
      [] x.t = "str" -> Raise("ValueError")
      [] OTHER -> Raise("TypeError")

(***************************************************************************)
(* split_number_parts and format_number_pt                                 *)
(***************************************************************************)
\* return int_part, decimal_part
split_pair(int_part, decimal_part) ==
    IF decimal_part.exc # "" THEN decimal_part
    ELSE [exc |-> "", val |-> PyNone,
          int_part |-> int_part, decimal_part |-> decimal_part.val]

\* decimal_part = int(str.split('.')[1]), the '.' of str being at dot
split_at_dot(int_part, str, dot) ==
    IF dot = 0 \/ Contains(SubSeq(str, dot + 1, Len(str)), ".")
    THEN Raise("ValueError")
    ELSE split_pair(int_part, py_int(PyStr(SubSeq(str, dot + 1, Len(str)))))

\* the decimal part from formatted = f"{number:.2f}"
split_formatted(int_part, formatted) ==
    IF formatted.exc # "" THEN formatted
    ELSE split_at_dot(int_part, formatted.val.s, Find(formatted.val.s, "."))

\* the decimal part after int_part = int(number)
split_after_int(number, int_part) ==
    IF int_part.exc # "" THEN int_part
    ELSE split_formatted(int_part.val, format_2f(number))

\* returns the pair as [int_part, decimal_part], both int
split_number_parts(number) == split_after_int(number, py_int(number))

RECURSIVE GroupsFromLeft(_)
\* a faulty loop that counts the characters from the left
GroupsFromLeft(s) ==
    IF Len(s) <= 3 THEN s
    ELSE SubSeq(s, 1, 3) \o "." \o GroupsFromLeft(SubSeq(s, 4, Len(s)))

RECURSIVE ThousandsSep(_)
\* the loop of format_number_pt: a '.' before every third character counted
\* from the right, whatever the character
ThousandsSep(s) ==
    IF Len(s) <= 3 THEN s
    ELSE ThousandsSep(SubSeq(s, 1, Len(s) - 3)) \o "." \o SubSeq(s, Len(s) - 2, Len(s))

\* the digits ds of |n| padded to two characters, the sign counting as one
Pad02d(neg, ds) ==
    IF neg THEN "-" \o (IF Len(ds) < 1 THEN "0" ELSE "") \o ds
    ELSE Zeros(2 - Len(ds)) \o ds

\* a faulty f"{n:d}", without the padding
FormatD(n) == IntStr(n.neg, n.m)

\* f"{n:02d}" of an int
Format02d(n) == Pad02d(n.neg, NatStr(n.m))

\* a faulty suffix: the space and the symbol even if the symbol is empty
always_with_symbol(result, currency_symbol) ==
    Return(PyStr(result \o " " \o currency_symbol))

\* result, followed by the currency symbol if there is one
with_currency_symbol(result, currency_symbol) ==
    IF currency_symbol # "" THEN Return(PyStr(result \o " " \o currency_symbol))
    ELSE Return(PyStr(result))

\* a faulty branch that shows the decimals whatever show_decimals says
decimals_always(show_decimals, decimal_part) == "," \o Format02d(decimal_part)

\* if show_decimals: result = f"{result},{decimal_part:02d}"
decimals_if_shown(show_decimals, decimal_part) ==
    IF show_decimals THEN "," \o Format02d(decimal_part) ELSE ""

\* the number formatted from its parts
format_parts(parts, show_decimals, currency_symbol) ==
    IF parts.exc # "" THEN Raise(parts.exc)
    ELSE with_currency_symbol(
             ThousandsSep(IntStr(parts.int_part.neg, parts.int_part.m))
                 \o decimals_if_shown(show_decimals, parts.decimal_part),
             currency_symbol)

format_number_pt(number, show_decimals, currency_symbol) ==
    format_parts(split_number_parts(number), show_decimals, currency_symbol)

(***************************************************************************)
(* num2words(n, lang='pt_pt'): the library has no 'pt_pt' converter and    *)
(* falls back to lang[:2] = 'pt', the European Portuguese cardinal.        *)
(***************************************************************************)
LowWords ==
    <<"um", "dois", "três", "quatro", "cinco", "seis", "sete", "oito", "nove",
      "dez", "onze", "doze", "treze", "catorze", "quinze", "dezasseis",
      "dezassete", "dezoito", "dezanove">>

TensWords ==
    <<"dez", "vinte", "trinta", "quarenta", "cinquenta", "sessenta", "setenta",
      "oitenta", "noventa">>

HundredsWords ==
    <<"cento", "duzentos", "trezentos", "quatrocentos", "quinhentos",
      "seiscentos", "setecentos", "oitocentos", "novecentos">>

\* 10^6, 10^12, ... on the long scale, as merged after "um"
ScaleSingular ==
    <<"milhão", "bilião", "trilião", "quadrilião", "quintilião", "sextilião",
      "septilião", "octilião", "nonilião">>

\* ... and as merged after any other multiplier
ScalePlural ==
    <<"milhões", "biliões", "triliões", "quadriliões", "quintiliões",
      "sextiliões", "septiliões", "octiliões", "noniliões">>

\* 0..99
Words2(n) ==
    IF n = 0 THEN "zero"
    ELSE IF n < 20 THEN LowWords[n]
    ELSE TensWords[n \div 10] \o (IF n % 10 = 0 THEN "" ELSE " e " \o LowWords[n % 10])

\* 0..999
Words3(n) ==
    IF n < 100 THEN Words2(n)
    ELSE (IF n \div 100 > 1 THEN HundredsWords[n \div 100]
          ELSE IF n % 100 = 0 THEN "cem" ELSE "cento")
             \o (IF n % 100 = 0 THEN "" ELSE " e " \o Words2(n % 100))

\* ds without its leading zeros
DropLeadingZeros(ds) ==
    LET nz == {i \in 1..Len(ds) : ds[i] # 0}
    IN  IF nz = {} THEN <<>>
        ELSE SubSeq(ds, CHOOSE i \in nz : \A j \in nz : i <= j, Len(ds))

\* a number of at most six digits
Words6(ds) ==
    IF Len(ds) <= 3 THEN Words3(SmallOfDigits(ds, 1, Len(ds)))
    ELSE LET t == SmallOfDigits(ds, 1, Len(ds) - 3)
             r == SmallOfDigits(ds, Len(ds) - 2, Len(ds))
         IN  (IF t = 1 THEN "mil" ELSE Words3(t) \o " mil")
                 \o (IF r = 0 THEN "" ELSE " e " \o Words3(r))

RECURSIVE WordsMerged(_)
\* splitnum/clean/merge: the multiplier of the highest scale word, the scale
\* word, then " e " and the rest
WordsMerged(ds) ==
    IF Len(ds) <= 6 THEN Words6(ds)
    ELSE LET j    == (Len(ds) - 1) \div 6
             high == SubSeq(ds, 1, Len(ds) - 6 * j)
             low  == DropLeadingZeros(SubSeq(ds, Len(ds) - 6 * j + 1, Len(ds)))
         IN  (IF high = <<1>> THEN "um " \o ScaleSingular[j]
              ELSE Words6(high) \o " " \o ScalePlural[j])
                 \o (IF low = <<>> THEN "" ELSE " e " \o WordsMerged(low))

IsWordChar(c) == c \notin {"", " ", ",", "-", "."}

\* re.match('.*<ext> e \w*entos? (?=.*e)', result)
MatchesHundredsAfter(ext, result) ==
    LET head == ext \o " e "
        n    == Len(result)
    IN  \E p \in 1..n :
          /\ Mid(result, p, p + Len(head) - 1) = head
          /\ \E t \in (p + Len(head))..n :
               /\ \A u \in (p + Len(head))..(t - 1) : IsWordChar(CharAt(result, u))
               /\ Mid(result, t, t + 3) = "ento"
               /\ \E sp \in {t + 4, t + 5} :
                    /\ sp = t + 5 => CharAt(result, t + 4) = "s"
                    /\ CharAt(result, sp) = " "
                    /\ \E u \in (sp + 1)..n : CharAt(result, u) = "e"

\* the scale words after which to_cardinal drops the "e"
DropExts ==
    <<"mil", "milhão", "milhões", "mil milhões", "bilião", "biliões", "mil biliões">>

RECURSIVE DropEs(_, _)
\* "mil e cento e catorze" -> "mil cento e catorze", one scale word at a time
DropEs(result, i) ==
    IF i > Len(DropExts) THEN result
    ELSE DropEs(IF MatchesHundredsAfter(DropExts[i], result)
                THEN Replace(result, DropExts[i] \o " e", DropExts[i])
                ELSE result, i + 1)

\* num2words(n) for an int n
num2words(n) ==
    DropEs((IF n.neg THEN "menos " ELSE "") \o WordsMerged(BDecDigits(n.m)), 1)

(***************************************************************************)
(* num_to_words_pt(number, currency): currency "" stands for None          *)
(***************************************************************************)
\* a faulty rule: a comma after every "mil", whatever the number and the word
mil_comma_everywhere(int_words, int_part) == Replace(int_words, "mil", "mil,")

\* lines 82-90: the comma after "mil"
mil_comma(int_words, int_part) ==
    IF /\ Contains(int_words, "mil")
       /\ ~int_part.neg /\ BCmp(int_part.m, BOfInt(1000)) > 0
       /\ BDivSmall(int_part.m, 1000).r # 0
    THEN (IF Contains(int_words, " mil ") THEN Replace(int_words, " mil ", " mil, ")
          ELSE IF StartsWith(int_words, "mil ") THEN Replace(int_words, "mil ", "mil, ")
          ELSE int_words)
    ELSE int_words

\* a faulty joining that has "centavos" for one cent too
join_words_plural_cents(int_part, decimal_part, int_words, cents, currency) ==
    IF currency # ""
    THEN (IF int_part = PyInt(FALSE, <<1>>)
          THEN int_words \o " " \o currency
          ELSE int_words \o " " \o currency \o "s")
             \o (IF decimal_part.m = <<>> THEN ""
                 ELSE " e " \o cents \o " centavos")
    ELSE int_words \o (IF decimal_part.m = <<>> THEN "" ELSE ", " \o cents)

\* a faulty joining that has " e " before the cents when there is no currency
join_words_with_e(int_part, decimal_part, int_words, cents, currency) ==
    IF currency # ""
    THEN (IF int_part = PyInt(FALSE, <<1>>)
          THEN int_words \o " " \o currency
          ELSE int_words \o " " \o currency \o "s")
             \o (IF decimal_part.m = <<>> THEN ""
                 ELSE IF decimal_part.m = <<1>>
                 THEN " e " \o cents \o " centavo"
                 ELSE " e " \o cents \o " centavos")
    ELSE int_words \o (IF decimal_part.m = <<>> THEN "" ELSE " e " \o cents)

\* the words of the integer part and of the decimal part, joined
join_words(int_part, decimal_part, int_words, cents, currency) ==
    IF currency # ""
    THEN (IF int_part = PyInt(FALSE, <<1>>)
          THEN int_words \o " " \o currency
          ELSE int_words \o " " \o currency \o "s")
             \o (IF decimal_part.m = <<>> THEN ""
                 ELSE IF decimal_part.m = <<1>>
                 THEN " e " \o cents \o " centavo"
                 ELSE " e " \o cents \o " centavos")
    ELSE int_words \o (IF decimal_part.m = <<>> THEN "" ELSE ", " \o cents)

\* a faulty version without the try: the exception leaves the function
words_or_raise(number, parts, currency) ==
    IF parts.exc # "" THEN Raise(parts.exc)
    ELSE Return(PyStr(join_words(parts.int_part, parts.decimal_part,
                                 mil_comma(num2words(parts.int_part), parts.int_part),
                                 num2words(parts.decimal_part), currency)))

\* the words of the parts; str(number) if the number could not be split
words_of_parts(number, parts, currency) ==
    IF parts.exc # "" THEN Return(PyStr(py_str(number)))
    ELSE Return(PyStr(join_words(parts.int_part, parts.decimal_part,
                                 mil_comma(num2words(parts.int_part), parts.int_part),
                                 num2words(parts.decimal_part), currency)))

num_to_words_pt(number, currency) ==
    words_of_parts(number, split_number_parts(number), currency)

(***************************************************************************)
(* Dates                                                                   *)
(***************************************************************************)
pt_months ==
    <<"janeiro", "fevereiro", "março", "abril", "maio", "junho", "julho",
      "agosto", "setembro", "outubro", "novembro", "dezembro">>

\* a faulty lookup that wraps a month number outside 1..12 around the year
month_of_the_year(month_number) == pt_months[((month_number - 1) % 12) + 1]

\* pt_months.get(month_number, "")
get_portuguese_month(month_number) ==
    IF month_number \in DOMAIN pt_months THEN pt_months[month_number] ELSE ""

(***************************************************************************)
(* Maps.  A dict is a function from its keys to values; the heap is the    *)
(* sequence of the dicts created so far, and a reference is an index of    *)
(* it.                                                                     *)
(***************************************************************************)
DictSet(d, k, v) == [x \in DOMAIN d \cup {k} |-> IF x = k THEN v ELSE d[x]]

\* a faulty variables.copy() that hands back the dict itself
dict_alias(heap, variables) == [heap |-> heap, ref |-> variables]

\* variables.copy(): a new dict with the same items
dict_copy(heap, variables) ==
    [heap |-> Append(heap, heap[variables]), ref |-> Len(heap) + 1]

\* f"{month_name} de {now.year}"
date_string(month_name, year) == month_name \o " de " \o NatStr(BOfInt(year))

\* a faulty update that keeps the date a dict already has
keep_date(heap, variables, now) ==
    [heap |-> [heap EXCEPT ![variables] =
                  IF "date" \in DOMAIN @ THEN @
                  ELSE DictSet(@, "date",
                               PyStr(date_string(get_portuguese_month(now.month),
                                                 now.year)))],
     ret  |-> Return(PyRef(variables)),
     log  |-> <<"process_date">>]

\* variables['date'] = ...; return variables
process_date(heap, variables, now) ==
    [heap |-> [heap EXCEPT ![variables] =
                  DictSet(@, "date",
                          PyStr(date_string(get_portuguese_month(now.month), now.year)))],
     ret  |-> Return(PyRef(variables)),
     log  |-> <<"process_date">>]

\* a faulty condition: 'qty' in variables or 'cost_per_unit' in variables
has_either_cost_input(d) == "qty" \in DOMAIN d \/ "cost_per_unit" \in DOMAIN d

\* line 220
has_cost_inputs(d) == "qty" \in DOMAIN d /\ "cost_per_unit" \in DOMAIN d

\* a faulty update that leaves out variables['total_cost_words']
store_total_cost_only(d, total_cost_formatted, total_cost_words) ==
    DictSet(d, "total_cost", total_cost_formatted)

\* variables['total_cost'] = ...; variables['total_cost_words'] = ...
store_total_cost(d, total_cost_formatted, total_cost_words) ==
    DictSet(DictSet(d, "total_cost", total_cost_formatted),
            "total_cost_words", total_cost_words)

\* a faulty update that writes the formatted qty under another key
store_quantity(d, qty_formatted) == DictSet(d, "quantity", qty_formatted)

\* variables['qty'] = ...
store_qty(d, qty_formatted) == DictSet(d, "qty", qty_formatted)

\* a faulty update that leaves out variables['cost_per_unit']
skip_cost_per_unit(d, cost_per_unit_formatted) == d

\* variables['cost_per_unit'] = ...
store_cost_per_unit(d, cost_per_unit_formatted) ==
    DictSet(d, "cost_per_unit", cost_per_unit_formatted)

\* to_number(variables[k])
to_number_of_item(d, k) ==
    IF k \in DOMAIN d THEN to_number(d[k]) ELSE Raise("KeyError")

\* how the if statement leaves the dict: the exception if one ended it, and
\* the first n of the functions it calls
Left(e, d, n) ==
    [exc |-> e, d |-> d,
     log |-> SubSeq(<<"to_number", "to_number", "process_total_cost",
                      "num_to_words_pt", "format_number_pt", "format_number_pt",
                      "format_number_pt">>, 1, n)]

\* variables['cost_per_unit'] = format_number_pt(cost_per_unit, True, "€")
set_cost_per_unit(d, formatted) ==
    IF formatted.exc # "" THEN Left(formatted.exc, d, 7)
    ELSE Left("", store_cost_per_unit(d, formatted.val), 7)

\* variables['qty'] = format_number_pt(qty, True, ""), and what follows
set_qty(d, cost_per_unit, formatted) ==
    IF formatted.exc # "" THEN Left(formatted.exc, d, 6)
    ELSE set_cost_per_unit(store_qty(d, formatted.val),
                           format_number_pt(cost_per_unit, TRUE, "€"))

\* the four assignments
set_total_cost(d, qty, cost_per_unit, total_cost_words, total_cost_formatted) ==
    IF total_cost_formatted.exc # "" THEN Left(total_cost_formatted.exc, d, 5)
    ELSE set_qty(store_total_cost(d, total_cost_formatted.val, total_cost_words.val),
                 cost_per_unit, format_number_pt(qty, TRUE, ""))

\* the formatted versions of total_cost, and what follows
generate_formatted(d, qty, cost_per_unit, total_cost) ==
    IF total_cost.exc # "" THEN Left(total_cost.exc, d, 3)
    ELSE set_total_cost(d, qty, cost_per_unit,
                        num_to_words_pt(total_cost.val, "euro"),
                        format_number_pt(total_cost.val, TRUE, "€"))

\* total_cost = process_total_cost(qty, cost_per_unit), and what follows
calculate_total_cost(d, qty, cost_per_unit) ==
    IF cost_per_unit.exc # "" THEN Left(cost_per_unit.exc, d, 2)
    ELSE generate_formatted(d, qty, cost_per_unit.val,
                            process_total_cost(qty, cost_per_unit.val))

\* cost_per_unit = to_number(variables['cost_per_unit']), and what follows
convert_cost_per_unit(d, qty) ==
    IF qty.exc # "" THEN Left(qty.exc, d, 1)
    ELSE calculate_total_cost(d, qty.val, to_number_of_item(d, "cost_per_unit"))

\* the if statement on the dict d
cost_stage(d) ==
    IF ~has_cost_inputs(d) THEN Left("", d, 0)
    ELSE convert_cost_per_unit(d, to_number_of_item(d, "qty"))

\* a faulty return that hands back the dict although the if statement raised
return_despite_error(heap, v, costs, log) ==
    [heap |-> [heap EXCEPT ![v] = costs.d], ret |-> Return(PyRef(v)),
     log  |-> log \o costs.log]

\* return variables, unless the if statement raised
return_variables(heap, v, costs, log) ==
    [heap |-> [heap EXCEPT ![v] = costs.d],
     ret  |-> IF costs.exc # "" THEN Raise(costs.exc) ELSE Return(PyRef(v)),
     log  |-> log \o costs.log]

\* the function after variables = process_date(variables)
process_costs(dated) ==
    return_variables(dated.heap, dated.ret.val.ref,
                     cost_stage(dated.heap[dated.ret.val.ref]),
                     <<"copy">> \o dated.log)

\* the function after variables = variables.copy()
process_copy(copied, now) ==
    process_costs(process_date(copied.heap, copied.ref, now))

process_costs_and_dates(heap, variables, now) ==
    process_copy(dict_copy(heap, variables), now)

(***************************************************************************)
(* generate_docx.py: the document path of the connector and the form UI,   *)
(* with its own to_number, process_total_cost, format_number_pt and        *)
(* num_to_words_pt.                                                        *)
(***************************************************************************)
\* to_number of generate_docx.py: no check for infinity
docx_to_number(variable) == to_number_rounded(Decimal(py_str(variable)))

docx_to_number_of_product(total_cost) ==
    IF total_cost.exc # "" THEN total_cost ELSE docx_to_number(total_cost.val)

\* process_total_cost of generate_docx.py: no type check
docx_process_total_cost(qty, cost_per_unit) ==
    docx_to_number_of_product(py_mul(qty, cost_per_unit))

\* int_part = str(round(number)); dec_part = None
docx_round(number) ==
    CASE number.t = "int" ->
            [exc |-> "", int_part |-> IntStr(number.neg, number.m), dec_part |-> ""]
      [] number.t = "float" ->
            IF number.k = "nan" THEN Raise("ValueError")
            ELSE IF number.k = "inf" THEN Raise("OverflowError")
            ELSE [exc |-> "",
                  int_part |-> IntStr(number.neg,
                                      IF number.m = <<>> THEN <<>>
                                      ELSE RoundHalfEven2(FScaled2(number, 0))),
                  dec_part |-> ""]
      [] OTHER -> Raise("TypeError")

\* int_part, dec_part = formatted.split('.')
docx_split(formatted, dot) ==
    IF dot = 0 \/ Contains(SubSeq(formatted, dot + 1, Len(formatted)), ".")
    THEN Raise("ValueError")
    ELSE [exc |-> "", int_part |-> SubSeq(formatted, 1, dot - 1),
          dec_part |-> SubSeq(formatted, dot + 1, Len(formatted))]

\* formatted = f"{number:.2f}", and its split
docx_formatted(formatted) ==
    IF formatted.exc # "" THEN Raise(formatted.exc)
    ELSE docx_split(formatted.val.s, Find(formatted.val.s, "."))

\* the separators, the decimals and the symbol
docx_format_parts(parts, show_decimals, currency_symbol) ==
    IF parts.exc # "" THEN Raise(parts.exc)
    ELSE with_currency_symbol(
             ThousandsSep(parts.int_part)
                 \o (IF show_decimals /\ parts.dec_part # ""
                     THEN "," \o parts.dec_part ELSE ""),
             currency_symbol)

\* format_number_pt of generate_docx.py: the integer part is that of the
\* formatted string
docx_format_number_pt(number, show_decimals, currency_symbol) ==
    docx_format_parts(IF show_decimals THEN docx_formatted(format_2f(number))
                      ELSE docx_round(number),
                      show_decimals, currency_symbol)

\* num_to_words_pt of generate_docx.py: the same lines, with the body of
\* split_number_parts in the place of its call
docx_num_to_words_pt(number, currency) ==
    words_of_parts(number, split_number_parts(number), currency)

\* the four assignments, each after the one before
docx_update(d, total_cost_words, total_cost_formatted, qty_formatted, cost_per_unit_formatted) ==
    IF total_cost_formatted.exc # "" THEN [exc |-> total_cost_formatted.exc, d |-> d]
    ELSE IF qty_formatted.exc # ""
    THEN [exc |-> qty_formatted.exc,
          d |-> store_total_cost(d, total_cost_formatted.val, total_cost_words.val)]
    ELSE IF cost_per_unit_formatted.exc # ""
    THEN [exc |-> cost_per_unit_formatted.exc,
          d |-> store_qty(store_total_cost(d, total_cost_formatted.val,
                                           total_cost_words.val),
                          qty_formatted.val)]
    ELSE [exc |-> "",
          d |-> store_cost_per_unit(
                    store_qty(store_total_cost(d, total_cost_formatted.val,
                                               total_cost_words.val),
                              qty_formatted.val),
                    cost_per_unit_formatted.val)]

\* the formatted versions, and the update
docx_generate_formatted(d, qty, cost_per_unit, total_cost) ==
    IF total_cost.exc # "" THEN [exc |-> total_cost.exc, d |-> d]
    ELSE docx_update(d, docx_num_to_words_pt(total_cost.val, "euro"),
                     docx_format_number_pt(total_cost.val, TRUE, "€"),
                     docx_format_number_pt(qty, TRUE, ""),
                     docx_format_number_pt(cost_per_unit, TRUE, "€"))

\* total_cost = process_total_cost(qty, cost_per_unit), and what follows
docx_calculate(d, qty, cost_per_unit) ==
    IF qty.exc # "" THEN [exc |-> qty.exc, d |-> d]
    ELSE IF cost_per_unit.exc # "" THEN [exc |-> cost_per_unit.exc, d |-> d]
    ELSE docx_generate_formatted(d, qty.val, cost_per_unit.val,
                                 docx_process_total_cost(qty.val, cost_per_unit.val))

\* if 'qty' in variables and 'cost_per_unit' in variables:
docx_cost_stage(d) ==
    IF ~has_cost_inputs(d) THEN [exc |-> "", d |-> d]
    ELSE docx_calculate(d, docx_to_number(d["qty"]), docx_to_number(d["cost_per_unit"]))

\* the two assignments of the accessibility block
docx_store_accessibility(d, width, height) ==
    IF width.exc # "" THEN [exc |-> width.exc, d |-> d]
    ELSE IF height.exc # ""
    THEN [exc |-> height.exc, d |-> DictSet(d, "accessibility_width", width.val)]
    ELSE [exc |-> "",
          d |-> DictSet(DictSet(d, "accessibility_width", width.val),
                        "accessibility_height", height.val)]

\* if 'accessibility_width' in variables and 'accessibility_height' in variables:
docx_accessibility(costs) ==
    IF costs.exc # "" THEN costs
    ELSE IF {"accessibility_width", "accessibility_height"} \subseteq DOMAIN costs.d
    THEN docx_store_accessibility(costs.d,
                                  docx_to_number(costs.d["accessibility_width"]),
                                  docx_to_number(costs.d["accessibility_height"]))
    ELSE costs

\* variables['date'] = f"{month_name} de {now.year}"
docx_date(d, now) ==
    DictSet(d, "date", PyStr(date_string(get_portuguese_month(now.month), now.year)))

\* the template is looked up and rendered with the variables processed; the
\* call returns whether the document was saved, and variables is the dict it
\* built
docx_render(heap, processed, template_exists, renders) ==
    [heap |-> Append(heap, processed.d),
     ret  |-> IF processed.exc # "" THEN Raise(processed.exc)
              ELSE [exc |-> "", val |-> PyBool(template_exists /\ renders),
                    variables |-> PyRef(Len(heap) + 1)],
     log  |-> IF processed.exc = "" /\ template_exists THEN <<"render">> ELSE <<>>]

generate_document(heap, variables, now, template_exists, renders) ==
    docx_render(heap, docx_accessibility(docx_cost_stage(docx_date(heap[variables], now))),
                template_exists, renders)

(***************************************************************************)
(* The callers.  A run is of one kind, drawn at the start:                 *)
(*   "pipeline"            a caller holding one map calls process_date and *)
(*                         process_costs_and_dates on the maps it holds,   *)
(*                         while the clock runs                            *)
(*   "to_number"           to_number on an input, then on what it returned *)
(*   "process_total_cost"  process_total_cost on a pair of inputs          *)
(*   "split_number_parts"  split_number_parts on an input                  *)
(*   "format_number_pt"    format_number_pt on a number, show_decimals and *)
(*                         a currency symbol                               *)
(*   "num_to_words_pt"     num_to_words_pt on a number and a currency noun *)
(*   "get_portuguese_month" get_portuguese_month on an int                 *)
(*   "create_documents"    create_documents on a template name, in any     *)
(*                         month of the year                               *)
(*   "generate_document"   generate_document of generate_docx.py on a map  *)
(***************************************************************************)
MaxCalls == 2
MaxTicks == 1
MaxMilli == 12
MaxCents == 8
MaxDigits == 9
MaxPow10 == 15
MaxBeyond == 4

\* the float literal c * 10^x (negated if neg), c < 2^31
FloatLit(neg, c, x) == PyFloat(DecToFloat(neg, BOfInt(c), x))

\* 1 / 3
OneThird == PyFloat(DecToFloat(FALSE, BOfDigits([i \in 1..16 |-> 3]), -16))

Nines26 == BOfDigits([i \in 1..26 |-> 9])

ToNumberInputs ==
    { FloatLit(FALSE, 1005, -3), FloatLit(FALSE, 1004, -3), FloatLit(FALSE, 2555, -3),
      FloatLit(TRUE, 10126, -3), FloatLit(FALSE, 125, -3),
      FloatLit(FALSE, 2675, -3), FloatLit(FALSE, 1, -7), FloatLit(FALSE, 123456789, 0),
      FloatLit(FALSE, 1, 22), FloatLit(FALSE, 1, 25), FloatLit(FALSE, 1, 26),
      PyFloat(FZero(FALSE)), PyFloat(FZero(TRUE)),
      PyFloat(FNaN), PyFloat(FInf(FALSE)), PyFloat(FInf(TRUE)),
      PyInt(FALSE, <<>>), PyInt(FALSE, <<5>>), PyInt(TRUE, <<7>>), PyInt(FALSE, <<100>>),
      PyInt(FALSE, BMulPow10(<<1>>, 25)), PyInt(FALSE, BMulPow10(<<1>>, 26)),
      PyInt(FALSE, Nines26), PyInt(TRUE, Nines26),
      PyStr("12"), PyStr(" 12 "), PyStr("1e2"), PyStr("1.005"), PyStr("-10.126"),
      PyStr("2,00"), PyStr("abc"), PyStr(""), PyStr("inf"), PyStr("-Infinity"),
      PyStr("nan"), PyStr("1e26"), PyStr("99999999999999999999999999.99"),
      PyStr("99999999999999999999999999.994"),
      PyNone }
    \cup {FloatLit(neg, k, -3) : neg \in BOOLEAN, k \in 1..MaxMilli}

TotalCostInputs ==
    { <<FloatLit(FALSE, 115, -2), FloatLit(FALSE, 15, -1)>>,
      <<FloatLit(FALSE, 35, -2), FloatLit(FALSE, 1, -1)>>,
      <<FloatLit(FALSE, 7, -2), FloatLit(FALSE, 5, -1)>>,
      <<PyInt(FALSE, <<2>>), FloatLit(FALSE, 1005, -2)>>,
      <<OneThird, PyInt(FALSE, <<3>>)>>,
      <<PyInt(FALSE, <<2>>), PyInt(FALSE, <<10>>)>>,
      <<FloatLit(FALSE, 25, -1), FloatLit(FALSE, 105, -1)>>,
      <<PyInt(FALSE, BOfInt(1000000)), PyInt(FALSE, BOfInt(1000000))>>,
      <<PyInt(FALSE, <<>>), PyInt(FALSE, <<5>>)>>,
      <<PyInt(TRUE, <<2>>), FloatLit(FALSE, 35, -1)>>,
      <<FloatLit(FALSE, 1, 200), FloatLit(FALSE, 1, 200)>>,
      <<PyFloat(FNaN), PyInt(FALSE, <<1>>)>>,
      <<PyFloat(FInf(FALSE)), PyInt(FALSE, <<2>>)>>,
      <<PyInt(FALSE, BMulPow10(<<1>>, 13)), PyInt(FALSE, BMulPow10(<<1>>, 13))>>,
      <<PyNone, PyInt(FALSE, <<1>>)>>, <<PyInt(FALSE, <<1>>), PyNone>>,
      <<PyNone, PyNone>>, <<PyStr("5"), PyInt(FALSE, <<2>>)>>,
      <<PyInt(FALSE, <<2>>), PyStr("5")>>, <<PyStr(""), FloatLit(FALSE, 1, 0)>>,
      <<FloatLit(FALSE, 15, -1), PyStr("2.5")>>, <<PyStr("abc"), PyStr("def")>>,
      <<PyStr("3"), PyNone>> }
    \cup {<<FloatLit(FALSE, q, -2), c>> :
              q \in 1..MaxCents,
              c \in {FloatLit(FALSE, 5, -1), FloatLit(FALSE, 15, -1)}}

\* what a caller's map holds under qty and under cost_per_unit, if anything
QtyInputs ==
    { PyInt(FALSE, <<2>>), FloatLit(FALSE, 115, -2), PyStr("abc"), PyFloat(FNaN) }

CostInputs == { FloatLit(FALSE, 15, -1), PyStr("617.28"), PyNone, PyFloat(FInf(FALSE)) }

\* the other keys of a caller's map
OtherItems ==
    { [k \in {"existing_var", "another_var"} |->
          IF k = "existing_var" THEN PyStr("value") ELSE PyInt(FALSE, <<123>>)],
      [k \in {"date", "total_cost", "total_cost_words", "other_var"} |->
          IF k = "date" THEN PyStr("maio de 2020")
          ELSE IF k = "total_cost" THEN PyFloat(FZero(FALSE)) ELSE PyStr("value")] }

\* d with the items of e added
DictUpdate(d, e) ==
    [k \in DOMAIN d \cup DOMAIN e |-> IF k \in DOMAIN e THEN e[k] ELSE d[k]]

CallerMaps ==
    {DictUpdate(DictUpdate(o, q), c) :
        o \in OtherItems,
        q \in {<<>>} \cup {[k \in {"qty"} |-> v] : v \in QtyInputs},
        c \in {<<>>} \cup {[k \in {"cost_per_unit"} |-> v] : v \in CostInputs}}

Clocks == {[month |-> 12, year |-> 2025]}

\* the int 1234567891... of k digits
RunOfDigits(k) == BOfDigits([i \in 1..k |-> ((i - 1) % 9) + 1])

\* the finite numbers given to split_number_parts, format_number_pt and
\* num_to_words_pt
NumberInputs ==
    { FloatLit(t[1], t[2], t[3]) :
        t \in { <<FALSE, 1999, -3>>, <<FALSE, 1000001, -3>>, <<FALSE, 995, -3>>,
                <<FALSE, 5, -3>>, <<FALSE, 1005, -3>>, <<FALSE, 2675, -3>>,
                <<FALSE, 125, -3>>, <<FALSE, 0, 0>>, <<FALSE, 1, -2>>,
                <<FALSE, 2, -2>>, <<FALSE, 5, -1>>, <<FALSE, 99, -2>>,
                <<FALSE, 1, 0>>, <<FALSE, 101, -2>>, <<FALSE, 15, -1>>,
                <<FALSE, 25, -1>>, <<FALSE, 123456, -2>>, <<FALSE, 999995, -3>>,
                <<FALSE, 99999, -3>>, <<FALSE, 123456789, -2>>,
                <<FALSE, 1, 12>>, <<FALSE, 1, 23>>,
                <<TRUE, 5, -1>>, <<TRUE, 996, -3>>, <<TRUE, 1, -3>>,
                <<TRUE, 1, 0>>, <<TRUE, 15, -1>>, <<TRUE, 12345, -2>>,
                <<TRUE, 12345, -1>>, <<TRUE, 1234565, -1>>,
                <<TRUE, 123456, -2>>, <<TRUE, 99999, -3>> } }
    \cup { PyInt(FALSE, BOfInt(n)) :
              n \in {0, 1, 2, 21, 100, 101, 999, 1001, 1101, 1200, 1234, 2000, 2500,
                     1000000, 1000001, 1000000001} }
    \cup { PyInt(FALSE, BMulPow10(<<1>>, k)) : k \in 0..MaxPow10 }
    \cup { PyInt(neg, RunOfDigits(k)) : neg \in BOOLEAN, k \in 1..MaxDigits }

\* inputs that are no finite number
OtherInputs ==
    { PyStr("abc"), PyStr("12"), PyStr(""), PyNone,
      PyFloat(FNaN), PyFloat(FInf(FALSE)), PyFloat(FInf(TRUE)) }

CurrencySymbols == {"€", "", "EUR"}

\* the currency nouns, "" standing for None
CurrencyNouns == {"euro", "dollar", ""}

FormatInputs ==
    { <<n, show_decimals, currency_symbol>> :
        n \in NumberInputs \cup OtherInputs,
        show_decimals \in BOOLEAN, currency_symbol \in CurrencySymbols }

WordsInputs ==
    { <<n, currency>> : n \in NumberInputs \cup OtherInputs, currency \in CurrencyNouns }

\* the months create_documents runs in
Calendar == {[month |-> m, year |-> 2025] : m \in 1..12}

TemplateNames == {"tr_coord"}

\* what variables.json holds: no cost inputs, cost inputs that convert, and
\* a qty that does not
LoadedMaps ==
    {DictUpdate(o, c) :
        o \in OtherItems,
        c \in { <<>>,
                [k \in {"qty", "cost_per_unit"} |->
                    IF k = "qty" THEN PyInt(FALSE, <<2>>) ELSE PyStr("617.28")],
                [k \in {"qty", "cost_per_unit"} |->
                    IF k = "qty" THEN PyStr("abc") ELSE FloatLit(FALSE, 15, -1)] }}

\* variables.json: there with a map in it, or not there
VariablesFiles ==
    {[found |-> TRUE, data |-> v] : v \in LoadedMaps}
        \cup {[found |-> FALSE, data |-> <<>>]}

\* the cost inputs and the accessibility inputs of the maps given to
\* generate_document
DocumentCosts ==
    { <<>>,
      [k \in {"qty", "cost_per_unit"} |->
          IF k = "qty" THEN PyStr("2.0") ELSE PyStr("617.28")],
      [k \in {"qty", "cost_per_unit"} |->
          IF k = "qty" THEN FloatLit(FALSE, 115, -2) ELSE FloatLit(FALSE, 15, -1)],
      [k \in {"qty", "cost_per_unit"} |->
          IF k = "qty" THEN FloatLit(TRUE, 5, -1) ELSE PyInt(FALSE, <<1>>)],
      [k \in {"qty", "cost_per_unit"} |->
          IF k = "qty" THEN PyStr("abc") ELSE FloatLit(FALSE, 15, -1)] }

DocumentSizes ==
    { <<>>,
      [k \in {"accessibility_width", "accessibility_height"} |->
          IF k = "accessibility_width" THEN PyStr("2.555") ELSE PyInt(FALSE, <<3>>)],
      [k \in {"accessibility_width", "accessibility_height"} |->
          IF k = "accessibility_width" THEN PyInt(FALSE, <<3>>) ELSE PyStr("abc")] }

DocumentMaps ==
    {DictUpdate(DictUpdate(o, c), a) :
        o \in OtherItems, c \in DocumentCosts, a \in DocumentSizes}

\* the ints given to get_portuguese_month: the months and MaxBeyond ints on
\* either side of them
MonthNumbers == (1 - MaxBeyond)..(12 + MaxBeyond)

IntAsPy(n) == IF n < 0 THEN PyInt(TRUE, BOfInt(0 - n)) ELSE PyInt(FALSE, BOfInt(n))

PyAsInt(v) == IF v.neg THEN 0 - BToInt(v.m) ELSE BToInt(v.m)

VARIABLES
    kind,     \* the kind of run
    heap,     \* the dicts created so far
    known,    \* the references the caller holds
    now,      \* datetime.now(): month and year
    ticks,    \* how often the clock has moved on
    pending,  \* the arguments of the next to_number / process_total_cost call
    calls     \* the calls made: fn, args, ret, log, pre and post heap, clock

vars == <<kind, heap, known, now, ticks, pending, calls>>

Call(fn, args, ret, log, pre, post) ==
    [fn |-> fn, args |-> args, ret |-> ret, log |-> log, pre |-> pre,
     post |-> post, now |-> now]

(***************************************************************************)
(* create_documents.  What the file system, jinja2 and the converters do   *)
(* is the caller's choice: variables.json is there or not, the template    *)
(* renders or not, each conversion succeeds or not.                        *)
(***************************************************************************)
\* with open(variables_path) as f: return json.load(f)
load_variables(h, file) ==
    IF file.found
    THEN [heap |-> Append(h, file.data), ret |-> Return(PyRef(Len(h) + 1))]
    ELSE [heap |-> h, ret |-> Raise("FileNotFoundError")]

\* env.get_template(...).render(**variables_dict)
render_html_template(template_name, variables_dict, renders) ==
    IF renders THEN Return(PyStr("<html>" \o template_name \o "</html>"))
    ELSE Raise("TemplateNotFound")

\* the converters catch what goes wrong and return None
convert_html_to_docx(html_content, output_path, converts) ==
    Return(IF converts THEN PyStr(output_path) ELSE PyNone)

convert_html_to_pdf(html_content, output_path, converts) ==
    Return(IF converts THEN PyStr(output_path) ELSE PyNone)

convert_to_pdfa(input_pdf, output_pdfa, converts) == Return(PyBool(converts))

\* if pdf_success:
Truthy(v) ==
    \/ v.t = "str" /\ v.s # ""
    \/ v.t = "bool" /\ v.m # <<>>

\* a faulty call that renders the variables as they were loaded
render_loaded_variables(template_name, variables, processed_variables) ==
    <<PyStr(template_name), variables>>

\* render_html_template(template_name, processed_variables)
render_arguments(template_name, variables, processed_variables) ==
    <<PyStr(template_name), processed_variables>>

\* lines 42-54: DOCX, then PDF, then PDF/A if there is a PDF
convert_documents(trace, h, template_name, html_content, docx, pdf, pdfa_converts) ==
    trace
      \o << Call("convert_html_to_docx",
                 <<html_content, PyStr("outputs/" \o template_name \o "_from_html.docx")>>,
                 docx, <<>>, h, h),
            Call("convert_html_to_pdf",
                 <<html_content, PyStr("outputs/" \o template_name \o "_from_html.pdf")>>,
                 pdf, <<>>, h, h) >>
      \o IF Truthy(pdf.val)
         THEN << Call("convert_to_pdfa",
                      << PyStr("outputs/" \o template_name \o "_from_html.pdf"),
                         PyStr("outputs/" \o template_name \o "_from_html_pdfa.pdf") >>,
                      convert_to_pdfa("outputs/" \o template_name \o "_from_html.pdf",
                                      "outputs/" \o template_name \o "_from_html_pdfa.pdf",
                                      pdfa_converts),
                      <<>>, h, h) >>
         ELSE <<>>

\* lines 33-54: render, then convert what was rendered
render_and_convert(trace, h, template_name, html, docx_converts, pdf_converts, pdfa_converts) ==
    IF html.exc # "" THEN trace
    ELSE convert_documents(
             trace, h, template_name, html.val,
             convert_html_to_docx(html.val.s,
                                  "outputs/" \o template_name \o "_from_html.docx",
                                  docx_converts),
             convert_html_to_pdf(html.val.s,
                                 "outputs/" \o template_name \o "_from_html.pdf",
                                 pdf_converts),
             pdfa_converts)

\* the calls create_documents makes, l being what load_variables did and p
\* what process_costs_and_dates did on the variables loaded
create_documents(template_name, h, l, p, renders, docx_converts, pdf_converts, pdfa_converts) ==
    IF l.ret.exc # ""
    THEN [heap |-> l.heap,
          trace |-> <<Call("load_variables", <<>>, l.ret, <<>>, h, l.heap)>>]
    ELSE IF p.ret.exc # ""
    THEN [heap |-> p.heap,
          trace |-> << Call("load_variables", <<>>, l.ret, <<>>, h, l.heap),
                       Call("process_costs_and_dates", <<l.ret.val>>, p.ret, p.log,
                            l.heap, p.heap) >>]
    ELSE [heap |-> p.heap,
          trace |->
              render_and_convert(
                  << Call("load_variables", <<>>, l.ret, <<>>, h, l.heap),
                     Call("process_costs_and_dates", <<l.ret.val>>, p.ret, p.log,
                          l.heap, p.heap),
                     Call("render_html_template",
                          render_arguments(template_name, l.ret.val, p.ret.val),
                          render_html_template(template_name, p.heap[p.ret.val.ref],
                                               renders),
                          <<>>, p.heap, p.heap) >>,
                  p.heap, template_name,
                  render_html_template(template_name, p.heap[p.ret.val.ref], renders),
                  docx_converts, pdf_converts, pdfa_converts)]

\* what process_costs_and_dates does on the variables loaded, if any were
process_loaded(l, clock) ==
    IF l.ret.exc = "" THEN process_costs_and_dates(l.heap, l.ret.val.ref, clock)
    ELSE [heap |-> l.heap, ret |-> l.ret, log |-> <<>>]

Init ==
    /\ calls = <<>>
    /\ ticks = 0
    /\ \/ /\ kind = "pipeline"
          /\ \E v \in CallerMaps : heap = <<v>>
          /\ known = {1}
          /\ now \in Clocks
          /\ pending = <<>>
       \/ /\ kind = "to_number"
          /\ \E x \in ToNumberInputs : pending = <<x>>
          /\ heap = <<>> /\ known = {} /\ now \in Clocks
       \/ /\ kind = "process_total_cost"
          /\ pending \in TotalCostInputs
          /\ heap = <<>> /\ known = {} /\ now \in Clocks
       \/ /\ kind = "split_number_parts"
          /\ \E x \in NumberInputs \cup OtherInputs : pending = <<x>>
          /\ heap = <<>> /\ known = {} /\ now \in Clocks
       \/ /\ kind = "format_number_pt"
          /\ pending \in FormatInputs
          /\ heap = <<>> /\ known = {} /\ now \in Clocks
       \/ /\ kind = "num_to_words_pt"
          /\ pending \in WordsInputs
          /\ heap = <<>> /\ known = {} /\ now \in Clocks
       \/ /\ kind = "get_portuguese_month"
          /\ \E n \in MonthNumbers : pending = <<IntAsPy(n)>>
          /\ heap = <<>> /\ known = {} /\ now \in Clocks
       \/ /\ kind = "create_documents"
          /\ \E template_name \in TemplateNames : pending = <<PyStr(template_name)>>
          /\ heap = <<>> /\ known = {} /\ now \in Calendar
       \/ /\ kind = "generate_document"
          /\ \E template_name \in TemplateNames : pending = <<PyStr(template_name)>>
          /\ \E v \in DocumentMaps : heap = <<v>>
          /\ known = {1}
          /\ now \in Clocks

\* the clock moves on to the next month
Tick ==
    /\ kind = "pipeline"
    /\ ticks < MaxTicks
    /\ ticks' = ticks + 1
    /\ now' = IF now.month = 12 THEN [month |-> 1, year |-> now.year + 1]
              ELSE [now EXCEPT !.month = @ + 1]
    /\ UNCHANGED <<kind, heap, known, pending, calls>>

ProcessDate(variables) ==
    /\ kind = "pipeline"
    /\ Len(calls) < MaxCalls
    /\ \E r \in {process_date(heap, variables, now)} :
          /\ heap' = r.heap
          /\ known' = known \cup {r.ret.val.ref}
          /\ calls' = Append(calls, Call("process_date", <<PyRef(variables)>>,
                                         r.ret, r.log, heap, r.heap))
    /\ UNCHANGED <<kind, now, ticks, pending>>

ProcessCostsAndDates(variables) ==
    /\ kind = "pipeline"
    /\ Len(calls) < MaxCalls
    /\ \E r \in {process_costs_and_dates(heap, variables, now)} :
          /\ heap' = r.heap
          /\ known' = IF r.ret.exc = "" THEN known \cup {r.ret.val.ref} ELSE known
          /\ calls' = Append(calls, Call("process_costs_and_dates",
                                         <<PyRef(variables)>>, r.ret, r.log,
                                         heap, r.heap))
    /\ UNCHANGED <<kind, now, ticks, pending>>

\* to_number on the pending argument; what it returns is the next argument
ToNumber ==
    /\ kind = "to_number"
    /\ Len(calls) < MaxCalls
    /\ pending # <<>>
    /\ \E ret \in {to_number(pending[1])} :
          /\ calls' = Append(calls, Call("to_number", pending, ret, <<>>, heap, heap))
          /\ pending' = IF ret.exc = "" THEN <<ret.val>> ELSE <<>>
    /\ UNCHANGED <<kind, heap, known, now, ticks>>

ProcessTotalCost ==
    /\ kind = "process_total_cost"
    /\ Len(pending) = 2
    /\ \E ret \in {process_total_cost(pending[1], pending[2])} :
          calls' = Append(calls, Call("process_total_cost", pending, ret, <<>>,
                                      heap, heap))
    /\ pending' = <<>>
    /\ UNCHANGED <<kind, heap, known, now, ticks>>

\* split_number_parts on the pending argument; the call returns the pair
\* under int_part and decimal_part
SplitNumberParts ==
    /\ kind = "split_number_parts"
    /\ Len(pending) = 1
    /\ \E ret \in {split_number_parts(pending[1])} :
          calls' = Append(calls, Call("split_number_parts", pending, ret, <<>>,
                                      heap, heap))
    /\ pending' = <<>>
    /\ UNCHANGED <<kind, heap, known, now, ticks>>

FormatNumberPt ==
    /\ kind = "format_number_pt"
    /\ Len(pending) = 3
    /\ \E ret \in {format_number_pt(pending[1], pending[2], pending[3])} :
          calls' = Append(calls, Call("format_number_pt", pending, ret, <<>>,
                                      heap, heap))
    /\ pending' = <<>>
    /\ UNCHANGED <<kind, heap, known, now, ticks>>

NumToWordsPt ==
    /\ kind = "num_to_words_pt"
    /\ Len(pending) = 2
    /\ \E ret \in {num_to_words_pt(pending[1], pending[2])} :
          calls' = Append(calls, Call("num_to_words_pt", pending, ret, <<>>,
                                      heap, heap))
    /\ pending' = <<>>
    /\ UNCHANGED <<kind, heap, known, now, ticks>>

GetPortugueseMonth ==
    /\ kind = "get_portuguese_month"
    /\ Len(pending) = 1
    /\ calls' = Append(calls, Call("get_portuguese_month", pending,
                                   Return(PyStr(get_portuguese_month(PyAsInt(pending[1])))),
                                   <<>>, heap, heap))
    /\ pending' = <<>>
    /\ UNCHANGED <<kind, heap, known, now, ticks>>

CreateDocuments ==
    /\ kind = "create_documents"
    /\ Len(pending) = 1
    /\ \E file \in VariablesFiles :
          \E l \in {load_variables(heap, file)} :
             \E p \in {process_loaded(l, now)} :
                \E renders, docx_converts, pdf_converts, pdfa_converts \in BOOLEAN :
                   \E r \in {create_documents(pending[1].s, heap, l, p, renders,
                                              docx_converts, pdf_converts,
                                              pdfa_converts)} :
                      /\ heap' = r.heap
                      /\ calls' = calls \o r.trace
    /\ pending' = <<>>
    /\ UNCHANGED <<kind, known, now, ticks>>

GenerateDocument(variables) ==
    /\ kind = "generate_document"
    /\ Len(pending) = 1
    /\ \E template_exists, renders \in BOOLEAN :
          \E r \in {generate_document(heap, variables, now, template_exists, renders)} :
             /\ heap' = r.heap
             /\ calls' = Append(calls, Call("generate_document",
                                            <<pending[1], PyRef(variables)>>,
                                            r.ret, r.log, heap, r.heap))
    /\ pending' = <<>>
    /\ UNCHANGED <<kind, known, now, ticks>>

Next ==
    \/ Tick
    \/ \E variables \in known : ProcessDate(variables)
    \/ \E variables \in known : ProcessCostsAndDates(variables)
    \/ ToNumber
    \/ ProcessTotalCost
    \/ SplitNumberParts
    \/ FormatNumberPt
    \/ NumToWordsPt
    \/ GetPortugueseMonth
    \/ CreateDocuments
    \/ \E variables \in known : GenerateDocument(variables)

Spec == Init /\ [][Next]_vars

(***************************************************************************)
(* The calls of a run, as the claims read them                             *)
(***************************************************************************)
CallsOf(fn) == {i \in 1..Len(calls) : calls[i].fn = fn}

\* the call just made, if it is one of fn: every call of a run is the latest
\* call in the state it leads to
LatestCallOf(fn) == {i \in CallsOf(fn) : i = Len(calls)}

\* the calls that returned
ReturnedCallsOf(fn) == {i \in CallsOf(fn) : calls[i].ret.exc = ""}

\* the dict a pipeline call was given, as it was before and after the call
InputBefore(c) == c.pre[c.args[1].ref]
InputAfter(c)  == c.post[c.args[1].ref]

\* the dict a pipeline call returned
Returned(c) == c.post[c.ret.val.ref]

BothPresent(v) == "qty" \in DOMAIN v /\ "cost_per_unit" \in DOMAIN v

CostKeys == {"qty", "cost_per_unit", "total_cost", "total_cost_words"}

Numeric(x) == x.t \in {"int", "float"}

FiniteNumber(x) == x.t = "int" \/ (x.t = "float" /\ x.k = "fin")

(***************************************************************************)
(* C1: a process_costs_and_dates call that returns leaves the map it was   *)
(* given with exactly the keys and values it had, and returns another      *)
(* object.                                                                  *)
(***************************************************************************)
C1_InputPreserved ==
    \A i \in ReturnedCallsOf("process_costs_and_dates") :
        /\ InputAfter(calls[i]) = InputBefore(calls[i])
        /\ calls[i].ret.val.ref # calls[i].args[1].ref

\* a call on a map with qty and cost_per_unit has returned a map with other
\* values for them
C1_Witness ==
    \E i \in ReturnedCallsOf("process_costs_and_dates") :
        /\ BothPresent(InputBefore(calls[i]))
        /\ Returned(calls[i])["qty"] # InputBefore(calls[i])["qty"]

(***************************************************************************)
(* C2 as stated: the returned map holds every key of the map given with    *)
(* the value it had there, plus date (and the cost fields when both inputs *)
(* are there).                                                              *)
(***************************************************************************)
C2_AsStated ==
    \A i \in ReturnedCallsOf("process_costs_and_dates") :
        /\ \A k \in DOMAIN InputBefore(calls[i]) :
              /\ k \in DOMAIN Returned(calls[i])
              /\ Returned(calls[i])[k] = InputBefore(calls[i])[k]
        /\ "date" \in DOMAIN Returned(calls[i])
        /\ BothPresent(InputBefore(calls[i]))
              => {"total_cost", "total_cost_words"} \subseteq DOMAIN Returned(calls[i])

\* the keys of v that the pipeline writes
Written(v) == {"date"} \cup (IF BothPresent(v) THEN CostKeys ELSE {})

(***************************************************************************)
(* C2, amended: the returned map holds every key of the map given, plus    *)
(* date, plus total_cost and total_cost_words when qty and cost_per_unit   *)
(* are both there; a key of the map given keeps its value unless it is     *)
(* date or, when both inputs are there, one of the four cost keys.         *)
(***************************************************************************)
C2_KeysKeptUnlessWritten ==
    \A i \in ReturnedCallsOf("process_costs_and_dates") :
        /\ DOMAIN InputBefore(calls[i]) \cup Written(InputBefore(calls[i]))
              \subseteq DOMAIN Returned(calls[i])
        /\ \A k \in DOMAIN InputBefore(calls[i]) \ Written(InputBefore(calls[i])) :
              Returned(calls[i])[k] = InputBefore(calls[i])[k]

\* a map that came with a date and with both inputs has been returned with
\* another date and another total_cost
C2_Witness ==
    \E i \in ReturnedCallsOf("process_costs_and_dates") :
        /\ BothPresent(InputBefore(calls[i]))
        /\ {"date", "total_cost"} \subseteq DOMAIN InputBefore(calls[i])
        /\ Returned(calls[i])["date"] # InputBefore(calls[i])["date"]
        /\ Returned(calls[i])["total_cost"] # InputBefore(calls[i])["total_cost"]

(***************************************************************************)
(* C3: every key of the map given other than date, qty, cost_per_unit,     *)
(* total_cost and total_cost_words has the same value in the returned map, *)
(* and the returned map has no keys but those of the map given, date, and  *)
(* (only when qty and cost_per_unit are both given) total_cost and         *)
(* total_cost_words.                                                        *)
(***************************************************************************)
C3_OtherKeysPassThrough ==
    \A i \in ReturnedCallsOf("process_costs_and_dates") :
        /\ \A k \in DOMAIN InputBefore(calls[i]) \ ({"date"} \cup CostKeys) :
              /\ k \in DOMAIN Returned(calls[i])
              /\ Returned(calls[i])[k] = InputBefore(calls[i])[k]
        /\ DOMAIN Returned(calls[i]) \subseteq
              DOMAIN InputBefore(calls[i]) \cup {"date"}
                  \cup (IF BothPresent(InputBefore(calls[i]))
                        THEN {"total_cost", "total_cost_words"} ELSE {})

\* a map with another key and both inputs, but no total_cost, has been
\* returned with total_cost added and the other key as it was
C3_Witness ==
    \E i \in ReturnedCallsOf("process_costs_and_dates") :
        /\ BothPresent(InputBefore(calls[i]))
        /\ "existing_var" \in DOMAIN InputBefore(calls[i])
        /\ "total_cost" \notin DOMAIN InputBefore(calls[i])
        /\ "total_cost" \in DOMAIN Returned(calls[i])
        /\ Returned(calls[i])["existing_var"] = PyStr("value")

(***************************************************************************)
(* C4: when qty or cost_per_unit is absent from the map given, the call    *)
(* returns, total_cost and total_cost_words are in the returned map only   *)
(* if they were given and then with the value given, no rounding or        *)
(* formatting function is called, and qty or cost_per_unit, if given, is   *)
(* returned with the value given (and is not added if not given).          *)
(***************************************************************************)
C4_NoCostStageWithoutBothInputs ==
    \A i \in CallsOf("process_costs_and_dates") :
        ~BothPresent(InputBefore(calls[i])) =>
            /\ calls[i].ret.exc = ""
            /\ calls[i].log = <<"copy", "process_date">>
            /\ \A k \in CostKeys :
                  k \in DOMAIN Returned(calls[i]) =>
                      /\ k \in DOMAIN InputBefore(calls[i])
                      /\ Returned(calls[i])[k] = InputBefore(calls[i])[k]
            /\ \A k \in CostKeys \cap DOMAIN InputBefore(calls[i]) :
                  k \in DOMAIN Returned(calls[i])

\* a map with qty alone has been returned with that qty
C4_Witness ==
    \E i \in ReturnedCallsOf("process_costs_and_dates") :
        /\ "qty" \in DOMAIN InputBefore(calls[i])
        /\ "cost_per_unit" \notin DOMAIN InputBefore(calls[i])
        /\ Returned(calls[i])["qty"] = InputBefore(calls[i])["qty"]
        /\ "total_cost" \notin DOMAIN Returned(calls[i])

\* the four cost fields of r are those derived from the rounded inputs q, c
CostFieldsFrom(r, q, c, t) ==
    /\ q.exc = "" /\ c.exc = "" /\ t.exc = ""
    /\ Return(r["total_cost"]) = format_number_pt(t.val, TRUE, "€")
    /\ Return(r["total_cost_words"]) = num_to_words_pt(t.val, "euro")
    /\ Return(r["qty"]) = format_number_pt(q.val, TRUE, "")
    /\ Return(r["cost_per_unit"]) = format_number_pt(c.val, TRUE, "€")

CostFieldsOf(r, q, c) == CostFieldsFrom(r, q, c, process_total_cost(q.val, c.val))

(***************************************************************************)
(* C5: when qty and cost_per_unit are both given as finite int or float,   *)
(* the call                                                                *)
(* returns, and with q = to_number(qty), c = to_number(cost_per_unit) and  *)
(* t = process_total_cost(q, c) the returned map has total_cost =          *)
(* format_number_pt(t, True, "€"), total_cost_words = num_to_words_pt(t,   *)
(* "euro"), qty = format_number_pt(q, True, "") and cost_per_unit =        *)
(* format_number_pt(c, True, "€").                                         *)
(***************************************************************************)
C5_CostFieldsDerived ==
    \A i \in LatestCallOf("process_costs_and_dates") :
        (/\ BothPresent(InputBefore(calls[i]))
         /\ FiniteNumber(InputBefore(calls[i])["qty"])
         /\ FiniteNumber(InputBefore(calls[i])["cost_per_unit"]))
        => /\ calls[i].ret.exc = ""
           /\ CostFieldsOf(Returned(calls[i]),
                           to_number(InputBefore(calls[i])["qty"]),
                           to_number(InputBefore(calls[i])["cost_per_unit"]))

\* qty 2 and cost_per_unit 1.5 have been returned as "2,00" and "1,50 €",
\* with total_cost "3,00 €" in words "três euros"
C5_Witness ==
    \E i \in ReturnedCallsOf("process_costs_and_dates") :
        /\ BothPresent(InputBefore(calls[i]))
        /\ InputBefore(calls[i])["qty"] = PyInt(FALSE, <<2>>)
        /\ InputBefore(calls[i])["cost_per_unit"] = FloatLit(FALSE, 15, -1)
        /\ Returned(calls[i])["qty"] = PyStr("2,00")
        /\ Returned(calls[i])["cost_per_unit"] = PyStr("1,50 €")
        /\ Returned(calls[i])["total_cost"] = PyStr("3,00 €")
        /\ Returned(calls[i])["total_cost_words"] = PyStr("três euros")

(***************************************************************************)
(* C6 as stated: process_date returns another object than the map it is    *)
(* given, the map given has no date key afterwards that it did not have    *)
(* before, and every other key given has the same value in the result.     *)
(***************************************************************************)
C6_AsStated ==
    \A i \in CallsOf("process_date") :
        /\ calls[i].ret.val.ref # calls[i].args[1].ref
        /\ "date" \in DOMAIN InputAfter(calls[i]) => "date" \in DOMAIN InputBefore(calls[i])
        /\ \A k \in DOMAIN InputBefore(calls[i]) \ {"date"} :
              Returned(calls[i])[k] = InputBefore(calls[i])[k]

\* process_date has been called on the map of the test, which has no date
C6_Witness ==
    \E i \in CallsOf("process_date") :
        /\ DOMAIN InputBefore(calls[i]) = {"existing_var", "another_var"}
        /\ calls[i].ret.val.ref = calls[i].args[1].ref
        /\ "date" \in DOMAIN InputAfter(calls[i])

\* the coefficient of d at two fractional digits, ties away from zero
HalfUpCents(c, x) ==
    IF -2 - x <= 0 THEN BMulPow10(c, 2 + x) ELSE RoundHalfUp(c, -2 - x)

\* the float nearest to the decimal d rounded half-up to two fractional digits
HalfUpFloat(neg, c, x) == PyFloat(DecToFloat(neg, HalfUpCents(c, x), -2))

\* the exact decimal of the string form of x
DecimalOfStr(x) == Decimal(py_str(x))

\* x is a finite number, or a string that reads as one
FiniteNumeric(x) ==
    \/ FiniteNumber(x)
    \/ x.t = "str" /\ Decimal(x.s).exc = "" /\ Decimal(x.s).val.k = "fin"

(***************************************************************************)
(* C7 as stated: for every finite number or numeric string x, to_number    *)
(* returns the exact decimal of the string form of x rounded to two        *)
(* fractional digits, ties away from zero.                                  *)
(***************************************************************************)
C7_AsStated ==
    \A i \in CallsOf("to_number") :
        FiniteNumeric(calls[i].args[1]) =>
            calls[i].ret = Return(HalfUpFloat(DecimalOfStr(calls[i].args[1]).val.neg,
                                              DecimalOfStr(calls[i].args[1]).val.c,
                                              DecimalOfStr(calls[i].args[1]).val.x))

\* to_number has raised on the finite float 1e26
C7_Witness ==
    \E i \in CallsOf("to_number") :
        /\ calls[i].args[1] = FloatLit(FALSE, 1, 26)
        /\ calls[i].ret = Raise("InvalidOperation")

(***************************************************************************)
(* C8 as stated: whenever to_number(n) returns a value, to_number of that  *)
(* value returns the same value.                                            *)
(***************************************************************************)
C8_AsStated ==
    \A i \in CallsOf("to_number") :
        (calls[i].ret.exc = "" /\ i < Len(calls)) =>
            /\ calls[i + 1].args = <<calls[i].ret.val>>
            /\ calls[i + 1].ret = calls[i].ret

\* to_number has returned 1e26 for 10^26 - 1 and raised on that 1e26
C8_Witness ==
    \E i \in CallsOf("to_number") :
        /\ i < Len(calls)
        /\ calls[i].args[1] = PyInt(FALSE, Nines26)
        /\ calls[i].ret = Return(FloatLit(FALSE, 1, 26))
        /\ calls[i + 1].args[1] = FloatLit(FALSE, 1, 26)
        /\ calls[i + 1].ret.exc # ""

\* the product of the decimals a and b, rounded half-up to two fractional
\* digits, as a float
RoundedProduct(a, b) == HalfUpFloat(a.neg # b.neg, BMul(a.c, b.c), a.x + b.x)

(***************************************************************************)
(* C9 as stated: for all finite int or float qty and cost_per_unit,        *)
(* process_total_cost returns their product rounded half-up to two         *)
(* fractional digits.                                                       *)
(***************************************************************************)
C9_AsStated ==
    \A i \in CallsOf("process_total_cost") :
        (FiniteNumber(calls[i].args[1]) /\ FiniteNumber(calls[i].args[2])) =>
            calls[i].ret = Return(RoundedProduct(DecimalOfStr(calls[i].args[1]).val,
                                                 DecimalOfStr(calls[i].args[2]).val))

\* process_total_cost(1.15, 1.5) has returned 1.72
C9_Witness ==
    \E i \in CallsOf("process_total_cost") :
        /\ calls[i].args = <<FloatLit(FALSE, 115, -2), FloatLit(FALSE, 15, -1)>>
        /\ calls[i].ret = Return(FloatLit(FALSE, 172, -2))

(***************************************************************************)
(* C10: process_total_cost raises TypeError whenever one of its arguments  *)
(* is not an int or a float, whatever the other is, and returns a value,   *)
(* which is a float, only when both are int or float.                      *)
(***************************************************************************)
C10_TypeErrorUnlessNumeric ==
    \A i \in CallsOf("process_total_cost") :
        /\ (~Numeric(calls[i].args[1]) \/ ~Numeric(calls[i].args[2]))
              => calls[i].ret = Raise("TypeError")
        /\ calls[i].ret.exc = ""
              => /\ Numeric(calls[i].args[1]) /\ Numeric(calls[i].args[2])
                 /\ calls[i].ret.val.t = "float"

\* process_total_cost has raised TypeError on the numeric string "5" with
\* the int 2, and on None with None
C10_Witness ==
    /\ \E i \in CallsOf("process_total_cost") :
          /\ calls[i].args = <<PyStr("5"), PyInt(FALSE, <<2>>)>>
          /\ calls[i].ret = Raise("TypeError")

\* x is a float infinity, or a string that Decimal reads as an infinity
DenotesInfinity(x) ==
    \/ x.t = "float" /\ x.k = "inf"
    \/ x.t = "str" /\ Decimal(x.s).exc = "" /\ Decimal(x.s).val.k = "inf"

(***************************************************************************)
(* C11 as stated: to_number raises ValueError, and returns no number, for  *)
(* every input that is plus or minus infinity, be it a float or a string   *)
(* that denotes infinity.                                                   *)
(***************************************************************************)
C11_AsStated ==
    \A i \in CallsOf("to_number") :
        DenotesInfinity(calls[i].args[1]) => calls[i].ret = Raise("ValueError")

\* to_number has raised decimal.InvalidOperation, which is no ValueError, on
\* the string "inf"
C11_Witness ==
    \E i \in CallsOf("to_number") :
        /\ calls[i].args[1] = PyStr("inf")
        /\ calls[i].ret = Raise("InvalidOperation")

\* the error of the first to_number of the cost stage that fails on v, if any
FirstFailure(v) ==
    LET qty == to_number(v["qty"])
    IN  IF qty.exc # "" THEN qty.exc ELSE to_number(v["cost_per_unit"]).exc

(***************************************************************************)
(* C12: when qty and cost_per_unit are both in the map given and to_number *)
(* fails on one of them, process_costs_and_dates raises that error,        *)
(* returns no map, and the map given is as it was before the call.         *)
(***************************************************************************)
C12_ErrorsSurface ==
    \A i \in LatestCallOf("process_costs_and_dates") :
        BothPresent(InputBefore(calls[i]))
        => LET failure == FirstFailure(InputBefore(calls[i]))
           IN  failure # ""
               => /\ calls[i].ret = Raise(failure)
                  /\ InputAfter(calls[i]) = InputBefore(calls[i])

\* a call on a map without date has raised ValueError on an infinite
\* cost_per_unit, and the map still has no date
C12_Witness ==
    \E i \in CallsOf("process_costs_and_dates") :
        /\ BothPresent(InputBefore(calls[i]))
        /\ InputBefore(calls[i])["cost_per_unit"] = PyFloat(FInf(FALSE))
        /\ InputBefore(calls[i])["qty"] = PyInt(FALSE, <<2>>)
        /\ calls[i].ret = Raise("ValueError")
        /\ "date" \notin DOMAIN InputAfter(calls[i])

\* the output of a call that returned a str
Out(c) == c.ret.val.s

(***************************************************************************)
(* C13 as stated: for every finite number n that to_number rounds, and     *)
(* every show_decimals and currency_symbol, format_number_pt(n, ...)       *)
(* returns what format_number_pt(to_number(n), ...) returns.               *)
(***************************************************************************)
C13_AsStated ==
    \A i \in CallsOf("format_number_pt") :
        (FiniteNumber(calls[i].args[1]) /\ to_number(calls[i].args[1]).exc = "")
        => calls[i].ret = format_number_pt(to_number(calls[i].args[1]).val,
                                           calls[i].args[2], calls[i].args[3])

\* format_number_pt(1.999) has returned "1,00 €"
C13_Witness ==
    \E i \in CallsOf("format_number_pt") :
        /\ calls[i].args = <<FloatLit(FALSE, 1999, -3), TRUE, "€">>
        /\ calls[i].ret = Return(PyStr("1,00 €"))

(***************************************************************************)
(* C14 as stated: for every negative number format_number_pt returns a str *)
(* in which a '-' is always followed by a digit.                           *)
(***************************************************************************)
C14_AsStated ==
    \A i \in CallsOf("format_number_pt") :
        (FiniteNumber(calls[i].args[1]) /\ calls[i].args[1].neg
            /\ calls[i].args[1].m # <<>>)
        => /\ calls[i].ret.exc = ""
           /\ \A p \in 1..Len(Out(calls[i])) :
                 CharAt(Out(calls[i]), p) = "-"
                     => IsDigit(CharAt(Out(calls[i]), p + 1))

\* format_number_pt(-123) has returned "-.123,00 €"
C14_Witness ==
    \E i \in CallsOf("format_number_pt") :
        /\ calls[i].args = <<PyInt(TRUE, BOfInt(123)), TRUE, "€">>
        /\ calls[i].ret = Return(PyStr("-.123,00 €"))

\* the digits of the integer part of a finite number
IntDigits(x) == NatStr(IF x.t = "int" THEN x.m ELSE FIntPart(x))

\* the leading digits and '.' of out
IntField(out) ==
    SubSeq(out, 1,
           (CHOOSE j \in 1..(Len(out) + 1) :
               /\ \A p \in 1..(j - 1) : IsDigit(CharAt(out, p)) \/ CharAt(out, p) = "."
               /\ ~(IsDigit(CharAt(out, j)) \/ CharAt(out, j) = ".")) - 1)

\* g is the digits d in groups of three from the right, '.' between groups
GroupedFromRight(g, d) ==
    /\ Len(g) = Len(d) + (Len(d) - 1) \div 3
    /\ \A i \in 1..Len(g) : (CharAt(g, Len(g) + 1 - i) = ".") <=> (i % 4 = 0)
    /\ \A k \in 1..Len(d) :
          CharAt(g, Len(g) + 1 - (k + (k - 1) \div 3)) = CharAt(d, Len(d) + 1 - k)

(***************************************************************************)
(* C15: for every number >= 0 the output of format_number_pt starts with   *)
(* the digits of the integer part in groups from the right, '.' between    *)
(* the groups: every group but the leftmost of 3 digits, the leftmost of 1 *)
(* to 3, no leading or trailing '.', and the digits are those of the       *)
(* integer part.                                                           *)
(***************************************************************************)
C15_GroupsOfThree ==
    \A i \in CallsOf("format_number_pt") :
        (FiniteNumber(calls[i].args[1]) /\ ~calls[i].args[1].neg)
        => /\ calls[i].ret.exc = ""
           /\ GroupedFromRight(IntField(Out(calls[i])), IntDigits(calls[i].args[1]))

\* format_number_pt(10^12) has returned "1.000.000.000.000,00 €", and
\* format_number_pt(1e23) the 23 digits of the float in eight groups
C15_Witness ==
    \E i \in CallsOf("format_number_pt") :
        /\ calls[i].args[2] /\ calls[i].args[3] = "€"
        /\ \/ /\ calls[i].args[1] = PyInt(FALSE, BMulPow10(<<1>>, 12))
              /\ calls[i].ret = Return(PyStr("1.000.000.000.000,00 €"))
           \/ /\ calls[i].args[1] = FloatLit(FALSE, 1, 23)
              /\ calls[i].ret = Return(PyStr("99.999.999.999.999.991.611.392,00 €"))

\* the hundredths b modulo 100
CentsOfHundredths(b) == BDivSmall(b, 100).r

\* the cents of the hundredths nearest to h.q / 2, h.st saying that the value
\* lies above h.q / 2: both neighbours if it lies halfway
CentsNearest(h, half) ==
    IF half.r = 0 THEN {CentsOfHundredths(half.q)}
    ELSE IF h.st THEN {CentsOfHundredths(BAdd(half.q, <<1>>))}
    ELSE {CentsOfHundredths(half.q), CentsOfHundredths(BAdd(half.q, <<1>>))}

\* the cents of the finite number x at two decimals
Cents(x) ==
    IF x.t = "int" \/ x.m = <<>> THEN {0}
    ELSE CentsNearest(FScaled2(x, 2), BDivSmall(FScaled2(x, 2).q, 2))

\* out without the currency suffix
Body(out, currency_symbol) ==
    IF currency_symbol = "" THEN out
    ELSE Mid(out, 1, Len(out) - Len(currency_symbol) - 1)

\* body ends with ',' and two digits, which are one of cents
EndsWithCents(body, cents) ==
    /\ Len(body) >= 4
    /\ CharAt(body, Len(body) - 2) = ","
    /\ IsDigit(CharAt(body, Len(body) - 3))
    /\ IsDigit(CharAt(body, Len(body) - 1)) /\ IsDigit(CharAt(body, Len(body)))
    /\ 10 * DigitVal(CharAt(body, Len(body) - 1)) + DigitVal(CharAt(body, Len(body)))
           \in cents

(***************************************************************************)
(* C16: with show_decimals true, for every finite number the output of     *)
(* format_number_pt before the currency suffix ends with ',' and exactly   *)
(* two digits, the cents of the number at 2 decimals (of the hundredths    *)
(* nearest to its value), zero-padded; and the decimal part that           *)
(* split_number_parts returns for a finite number is an int from 0 to 99.  *)
(***************************************************************************)
C16_TwoDigitCents ==
    /\ \A i \in CallsOf("format_number_pt") :
          (FiniteNumber(calls[i].args[1]) /\ calls[i].args[2])
          => /\ calls[i].ret.exc = ""
             /\ EndsWithCents(Body(Out(calls[i]), calls[i].args[3]),
                              Cents(calls[i].args[1]))
    /\ \A i \in CallsOf("split_number_parts") :
          FiniteNumber(calls[i].args[1])
          => /\ calls[i].ret.exc = ""
             /\ calls[i].ret.decimal_part.t = "int"
             /\ ~calls[i].ret.decimal_part.neg
             /\ BToInt(calls[i].ret.decimal_part.m) \in 0..99
             /\ BToInt(calls[i].ret.decimal_part.m) \in Cents(calls[i].args[1])

\* format_number_pt(0.01) has returned "0,01 €"
C16_Witness ==
    \E i \in CallsOf("format_number_pt") :
        /\ calls[i].args = <<FloatLit(FALSE, 1, -2), TRUE, "€">>
        /\ calls[i].ret = Return(PyStr("0,01 €"))

(***************************************************************************)
(* C17: for every finite number and every currency_symbol the output of    *)
(* format_number_pt ends with one space and the symbol, right after a      *)
(* digit, when the symbol is not empty, and with a digit when it is.       *)
(***************************************************************************)
C17_SymbolSuffix ==
    \A i \in CallsOf("format_number_pt") :
        FiniteNumber(calls[i].args[1])
        => /\ calls[i].ret.exc = ""
           /\ IF calls[i].args[3] # ""
              THEN /\ EndsWith(Out(calls[i]), " " \o calls[i].args[3])
                   /\ IsDigit(CharAt(Out(calls[i]),
                                     Len(Out(calls[i])) - Len(calls[i].args[3]) - 1))
              ELSE IsDigit(CharAt(Out(calls[i]), Len(Out(calls[i]))))

\* format_number_pt(1000, True, "") has returned "1.000,00"
C17_Witness ==
    \E i \in CallsOf("format_number_pt") :
        /\ calls[i].args = <<PyInt(FALSE, BOfInt(1000)), TRUE, "">>
        /\ calls[i].ret = Return(PyStr("1.000,00"))

AfterNoun(out, noun) ==
    IF Find(out, " " \o noun) = 0 THEN "?"
    ELSE CharAt(out, Find(out, " " \o noun) + Len(noun) + 1)

\* the noun is in out in the singular: no letter follows it
NounSingular(out, noun) == AfterNoun(out, noun) \in {"", " "}

\* the noun is in out with an "s" appended
NounPlural(out, noun) ==
    /\ AfterNoun(out, noun) = "s"
    /\ CharAt(out, Find(out, " " \o noun) + Len(noun) + 2) \in {"", " "}

(***************************************************************************)
(* C19 as stated: with a currency noun, the result of num_to_words_pt has  *)
(* the noun in the singular exactly when the integer part of the number is *)
(* 1 or -1, and with "s" appended for every other integer part.            *)
(***************************************************************************)
C19_AsStated ==
    \A i \in CallsOf("num_to_words_pt") :
        (FiniteNumber(calls[i].args[1]) /\ calls[i].args[2] # "")
        => /\ calls[i].ret.exc = ""
           /\ NounSingular(Out(calls[i]), calls[i].args[2])
                 <=> IntDigits(calls[i].args[1]) = "1"
           /\ NounPlural(Out(calls[i]), calls[i].args[2])
                 <=> IntDigits(calls[i].args[1]) # "1"

\* num_to_words_pt(-1, "euro") has returned "menos um euros"
C19_Witness ==
    \E i \in CallsOf("num_to_words_pt") :
        /\ calls[i].args = <<PyInt(TRUE, <<1>>), "euro">>
        /\ calls[i].ret = Return(PyStr("menos um euros"))

\* out has the cents clause of c cents, or none for no cents
CentsClause(out, c) ==
    /\ EndsWith(out, " e " \o Words2(c) \o " centavo") <=> c = 1
    /\ EndsWith(out, " e " \o Words2(c) \o " centavos") <=> c \in 2..99
    /\ ~Contains(out, "centavo") <=> c = 0

(***************************************************************************)
(* C20: with a currency noun, the result of num_to_words_pt ends with      *)
(* " e <cent-words> centavo" exactly when the cents of the number at 2     *)
(* decimals are 1, with " e <cent-words> centavos" exactly when they are 2 *)
(* to 99, and has no cents clause exactly when they are 0.                 *)
(***************************************************************************)
C20_CentsClause ==
    \A i \in CallsOf("num_to_words_pt") :
        (FiniteNumber(calls[i].args[1]) /\ calls[i].args[2] # "")
        => /\ calls[i].ret.exc = ""
           /\ \E c \in Cents(calls[i].args[1]) : CentsClause(Out(calls[i]), c)

\* num_to_words_pt(1.01, "euro") has returned "um euro e um centavo"
C20_Witness ==
    \E i \in CallsOf("num_to_words_pt") :
        /\ calls[i].args = <<FloatLit(FALSE, 101, -2), "euro">>
        /\ calls[i].ret = Return(PyStr("um euro e um centavo"))

\* the integer part of a finite number, truncated toward zero
IntPart(x) == IF x.t = "int" THEN x ELSE PyInt(x.neg, FIntPart(x))

\* the words num_to_words_pt has for the integer part of x
IntWords(x) == mil_comma(num2words(IntPart(x)), IntPart(x))

(***************************************************************************)
(* C21: without a currency, the result of num_to_words_pt is the integer   *)
(* words, followed by ", <cent-words>" when the cents at 2 decimals are    *)
(* not 0; neither a currency noun nor "centavo" is in it.                  *)
(***************************************************************************)
C21_CommaSeparatedCents ==
    \A i \in CallsOf("num_to_words_pt") :
        (FiniteNumber(calls[i].args[1]) /\ calls[i].args[2] = "")
        => /\ calls[i].ret.exc = ""
           /\ \E c \in Cents(calls[i].args[1]) :
                 Out(calls[i]) = IntWords(calls[i].args[1])
                                     \o (IF c = 0 THEN "" ELSE ", " \o Words2(c))
           /\ ~Contains(Out(calls[i]), "centavo")
           /\ \A noun \in CurrencyNouns \ {""} : ~Contains(Out(calls[i]), noun)

\* num_to_words_pt(1.5) has returned "um, cinquenta"
C21_Witness ==
    \E i \in CallsOf("num_to_words_pt") :
        /\ calls[i].args = <<FloatLit(FALSE, 15, -1), "">>
        /\ calls[i].ret = Return(PyStr("um, cinquenta"))

\* w has the word "mil" at p, on its own and followed by a blank
StandaloneMilAt(w, p) ==
    /\ Mid(w, p, p + 3) = "mil "
    /\ p = 1 \/ CharAt(w, p - 1) = " "

\* x is greater than 1000 and no multiple of 1000
AboveThousandWithRest(x) ==
    /\ ~x.neg
    /\ BCmp(x.m, BOfInt(1000)) > 0
    /\ BDivSmall(x.m, 1000).r # 0

\* every ',' of w comes directly after a word "mil" that stands on its own
CommasOnlyAfterMil(w) ==
    \A p \in 1..Len(w) :
        CharAt(w, p) = ","
            => /\ Mid(w, p - 3, p - 1) = "mil"
               /\ p = 4 \/ CharAt(w, p - 4) = " "

MesesDoAno ==
    [n \in 1..12 |->
        CASE n = 1 -> "janeiro"   [] n = 2 -> "fevereiro" [] n = 3 -> "março"
          [] n = 4 -> "abril"     [] n = 5 -> "maio"      [] n = 6 -> "junho"
          [] n = 7 -> "julho"     [] n = 8 -> "agosto"    [] n = 9 -> "setembro"
          [] n = 10 -> "outubro"  [] n = 11 -> "novembro" [] n = 12 -> "dezembro"]

NoCapital(w) ==
    \A p \in 1..Len(w) : ~Contains("ABCDEFGHIJKLMNOPQRSTUVWXYZÇÃÁÉÍÓÚ", CharAt(w, p))

(***************************************************************************)
(* C23: get_portuguese_month never raises; for each int 1 to 12 it returns *)
(* the Portuguese name of that month, in lower case and non-empty, the     *)
(* twelve names differing from one another; for every other int it         *)
(* returns the empty string.                                               *)
(***************************************************************************)
C23_TotalLookup ==
    /\ \A i \in CallsOf("get_portuguese_month") :
          /\ calls[i].ret.exc = ""
          /\ calls[i].ret.val.t = "str"
          /\ IF PyAsInt(calls[i].args[1]) \in 1..12
             THEN /\ Out(calls[i]) = MesesDoAno[PyAsInt(calls[i].args[1])]
                  /\ Out(calls[i]) # ""
                  /\ NoCapital(Out(calls[i]))
             ELSE Out(calls[i]) = ""
    /\ \A m, n \in 1..12 :
          m # n => get_portuguese_month(m) # get_portuguese_month(n)

\* get_portuguese_month(3) has returned "março"
C23_Witness ==
    \E i \in CallsOf("get_portuguese_month") :
        /\ calls[i].args = <<PyInt(FALSE, <<3>>)>>
        /\ calls[i].ret = Return(PyStr("março"))

\* get_portuguese_month has returned "" for 0, for 13 or for a negative int
C23_WitnessOutside ==
    \E i \in CallsOf("get_portuguese_month") :
        /\ PyAsInt(calls[i].args[1]) \in {0, 13, -1}
        /\ calls[i].ret = Return(PyStr(""))

\* the four digits of a year
YearDigits(y) ==
    CharAt("0123456789", (y \div 1000) + 1) \o CharAt("0123456789", ((y \div 100) % 10) + 1)
        \o CharAt("0123456789", ((y \div 10) % 10) + 1) \o CharAt("0123456789", (y % 10) + 1)

(***************************************************************************)
(* C24: whatever the input map and the current date, the map               *)
(* process_costs_and_dates returns has under date the string               *)
(* "<month name> de <year>" of the month and the year the call was made    *)
(* in, the month name being that of the calendar and never empty; so with  *)
(* and without cost fields, and with and without a date in the input.      *)
(***************************************************************************)
C24_DateOfTheCall ==
    \A i \in ReturnedCallsOf("process_costs_and_dates") :
        /\ "date" \in DOMAIN Returned(calls[i])
        /\ calls[i].now.month \in 1..12
        /\ MesesDoAno[calls[i].now.month] # ""
        /\ Returned(calls[i]).date
              = PyStr(MesesDoAno[calls[i].now.month] \o " de "
                        \o YearDigits(calls[i].now.year))

\* in March a map with a date of its own and with cost inputs has come back
\* with cost fields and the date of the call
C24_Witness ==
    \E i \in ReturnedCallsOf("process_costs_and_dates") :
        /\ calls[i].now.month = 3
        /\ "date" \in DOMAIN InputBefore(calls[i])
        /\ InputBefore(calls[i]).date = PyStr("maio de 2020")
        /\ "total_cost_words" \in DOMAIN Returned(calls[i])
        /\ BothPresent(InputBefore(calls[i]))
        /\ Returned(calls[i]).date = PyStr("março de 2025")

\* in August a map without a date and without cost inputs has come back with
\* the date of the call
C24_WitnessNoCost ==
    \E i \in ReturnedCallsOf("process_costs_and_dates") :
        /\ calls[i].now.month = 8
        /\ "date" \notin DOMAIN InputBefore(calls[i])
        /\ ~BothPresent(InputBefore(calls[i]))
        /\ Returned(calls[i]).date = PyStr("agosto de 2025")

\* the conversions create_documents makes
Conversions ==
    CallsOf("convert_html_to_docx") \cup CallsOf("convert_html_to_pdf")
        \cup CallsOf("convert_to_pdfa")

(***************************************************************************)
(* C25: in a run of create_documents, process_costs_and_dates is called    *)
(* exactly once once the variables are loaded, and on the map that was     *)
(* loaded; render_html_template is called after that call has returned,    *)
(* with the map it returned, that map being as the call left it; every     *)
(* conversion comes after the rendering has returned; and after a          *)
(* process_costs_and_dates that raised there is no rendering and no        *)
(* conversion.                                                             *)
(***************************************************************************)
C25_PipelineBeforeRendering ==
    kind = "create_documents" =>
        /\ Cardinality(CallsOf("process_costs_and_dates")) <= 1
        /\ \A l \in ReturnedCallsOf("load_variables") :
              \E q \in CallsOf("process_costs_and_dates") :
                  l < q /\ calls[q].args = <<calls[l].ret.val>>
        /\ \A q \in CallsOf("process_costs_and_dates") :
              \E l \in ReturnedCallsOf("load_variables") :
                  l < q /\ calls[q].args = <<calls[l].ret.val>>
        /\ \A r \in CallsOf("render_html_template") :
              \E q \in ReturnedCallsOf("process_costs_and_dates") :
                  /\ q < r
                  /\ calls[r].args[2] = calls[q].ret.val
                  /\ calls[r].pre[calls[r].args[2].ref] = Returned(calls[q])
        /\ \A c \in Conversions :
              \E r \in ReturnedCallsOf("render_html_template") : r < c
        /\ (\E q \in CallsOf("process_costs_and_dates") : calls[q].ret.exc # "")
              => CallsOf("render_html_template") \cup Conversions = {}

\* a run that loaded, processed, rendered and converted to DOCX, PDF and PDF/A
C25_Witness ==
    /\ kind = "create_documents"
    /\ Len(calls) = 6
    /\ calls[2].fn = "process_costs_and_dates"
    /\ "total_cost" \in DOMAIN Returned(calls[2])
    /\ calls[3].fn = "render_html_template"
    /\ calls[6].fn = "convert_to_pdfa"

\* a run in which process_costs_and_dates raised and that ended there
C25_WitnessRaised ==
    /\ kind = "create_documents"
    /\ Len(calls) = 2
    /\ calls[2].fn = "process_costs_and_dates"
    /\ calls[2].ret.exc # ""

\* s without its '.'
WithoutDots(s) == Replace(s, ".", "")

\* the integer part of x written out, '-' before it if it is below zero
TruncatedStr(x) == (IF IntPart(x).neg THEN "-" ELSE "") \o IntDigits(x)

\* with is without with ',' and two digits put before the currency suffix
DecimalsAdded(without, with, currency_symbol) ==
    /\ EndsWith(without, IF currency_symbol = "" THEN "" ELSE " " \o currency_symbol)
    /\ EndsWith(with, IF currency_symbol = "" THEN "" ELSE " " \o currency_symbol)
    /\ Len(Body(with, currency_symbol)) = Len(Body(without, currency_symbol)) + 3
    /\ Mid(Body(with, currency_symbol), 1, Len(Body(without, currency_symbol)))
          = Body(without, currency_symbol)
    /\ CharAt(Body(with, currency_symbol), Len(Body(without, currency_symbol)) + 1) = ","

(***************************************************************************)
(* C26: with show_decimals false, for every finite number the output of    *)
(* format_number_pt has no ','; before the currency suffix it is, the '.'  *)
(* left out, the integer part of the number truncated toward zero; and it  *)
(* is the output with decimals without the ',' and the two digits: the     *)
(* same separators and the same suffix.                                    *)
(***************************************************************************)
C26_IntegerPartOnly ==
    \A i \in CallsOf("format_number_pt") :
        (FiniteNumber(calls[i].args[1]) /\ ~calls[i].args[2])
        => /\ calls[i].ret.exc = ""
           /\ ~Contains(Out(calls[i]), ",")
           /\ WithoutDots(Body(Out(calls[i]), calls[i].args[3]))
                 = TruncatedStr(calls[i].args[1])
           /\ DecimalsAdded(Out(calls[i]),
                            format_number_pt(calls[i].args[1], TRUE,
                                             calls[i].args[3]).val.s,
                            calls[i].args[3])

\* format_number_pt(1234.56, False) has returned "1.234 €"
C26_Witness ==
    \E i \in CallsOf("format_number_pt") :
        /\ calls[i].args = <<FloatLit(FALSE, 123456, -2), FALSE, "€">>
        /\ calls[i].ret = Return(PyStr("1.234 €"))

\* format_number_pt(-1234.56, False) has returned "-1.234 €"
C26_WitnessNegative ==
    \E i \in CallsOf("format_number_pt") :
        /\ calls[i].args = <<FloatLit(TRUE, 123456, -2), FALSE, "€">>
        /\ calls[i].ret = Return(PyStr("-1.234 €"))

\* format_number_pt(0.00, False) has returned "0 €"
C26_WitnessZero ==
    \E i \in CallsOf("format_number_pt") :
        /\ calls[i].args = <<FloatLit(FALSE, 0, 0), FALSE, "€">>
        /\ calls[i].ret = Return(PyStr("0 €"))

\* the amounts to_number returns unchanged: floats of at most two decimals
RoundedAmounts ==
    {y \in NumberInputs : y.t = "float" /\ to_number(y) = Return(y)}

(***************************************************************************)
(* C27: format_number_pt returns different strings for different amounts   *)
(* of two decimals: what it returned for an amount x that to_number leaves *)
(* unchanged is not what it returns, with the same show_decimals and       *)
(* currency symbol, for any other such amount y; and for an amount         *)
(* strictly between -1 and 0 the string starts with '-'.                   *)
(***************************************************************************)
C27_AsStated ==
    \A i \in CallsOf("format_number_pt") :
        (calls[i].args[1] \in RoundedAmounts /\ calls[i].args[2])
        => /\ calls[i].ret.exc = ""
           /\ \A y \in RoundedAmounts \ {calls[i].args[1]} :
                 format_number_pt(y, calls[i].args[2], calls[i].args[3]) # calls[i].ret
           /\ (/\ calls[i].args[1].neg
               /\ FIntPart(calls[i].args[1]) = <<>>
               /\ calls[i].args[1].m # <<>>)
              => StartsWith(Out(calls[i]), "-")

\* format_number_pt(-0.5) has returned "0,50 €", as format_number_pt(0.5) does
C27_Witness ==
    \E i \in CallsOf("format_number_pt") :
        /\ calls[i].args = <<FloatLit(TRUE, 5, -1), TRUE, "€">>
        /\ calls[i].ret = Return(PyStr("0,50 €"))
        /\ FloatLit(TRUE, 5, -1) \in RoundedAmounts
        /\ FloatLit(FALSE, 5, -1) \in RoundedAmounts
        /\ format_number_pt(FloatLit(FALSE, 5, -1), TRUE, "€") = calls[i].ret

\* v has qty and cost_per_unit as ints or as strings that to_number turns
\* into finite floats
IntsOrNumericStrings(v) ==
    \A k \in {"qty", "cost_per_unit"} :
        /\ v[k].t \in {"int", "str"}
        /\ to_number(v[k]).exc = ""
        /\ FiniteNumber(to_number(v[k]).val)

\* to_number fails in the cost stage on v: on qty, on cost_per_unit, or on
\* their product inside process_total_cost
ToNumberFails(v) ==
    \/ FirstFailure(v) # ""
    \/ process_total_cost(to_number(v["qty"]).val,
                          to_number(v["cost_per_unit"]).val).exc
           \notin {"", "TypeError"}

(***************************************************************************)
(* C28 as stated: a call of process_costs_and_dates on a map with qty and  *)
(* cost_per_unit never raises TypeError; if the two are ints or numeric    *)
(* strings and to_number does not fail, it returns a map with the cost     *)
(* fields; and if it raises, to_number has failed on qty, on               *)
(* cost_per_unit or on their product.                                      *)
(***************************************************************************)
C28_AsStated ==
    \A i \in LatestCallOf("process_costs_and_dates") :
        BothPresent(InputBefore(calls[i]))
        => /\ calls[i].ret.exc # "TypeError"
           /\ (/\ IntsOrNumericStrings(InputBefore(calls[i]))
               /\ ~ToNumberFails(InputBefore(calls[i])))
              => /\ calls[i].ret.exc = ""
                 /\ {"total_cost", "total_cost_words"} \subseteq DOMAIN Returned(calls[i])
           /\ calls[i].ret.exc # "" => ToNumberFails(InputBefore(calls[i]))

\* with qty NaN every to_number of the cost stage has returned, and
\* format_number_pt of the total cost has raised ValueError
C28_Witness ==
    \E i \in CallsOf("process_costs_and_dates") :
        /\ BothPresent(InputBefore(calls[i]))
        /\ InputBefore(calls[i])["qty"] = PyFloat(FNaN)
        /\ InputBefore(calls[i])["cost_per_unit"] = FloatLit(FALSE, 15, -1)
        /\ ~ToNumberFails(InputBefore(calls[i]))
        /\ calls[i].ret = Raise("ValueError")
        /\ calls[i].log[Len(calls[i].log)] = "format_number_pt"

RECURSIVE DigitsValue(_)
\* the number the digits of s spell, whatever else s holds
DigitsValue(s) ==
    IF s = "" THEN 0
    ELSE IF IsDigit(CharAt(s, Len(s)))
    THEN 10 * DigitsValue(Mid(s, 1, Len(s) - 1)) + DigitVal(CharAt(s, Len(s)))
    ELSE DigitsValue(Mid(s, 1, Len(s) - 1))

\* the amount a formatted string with two decimals shows, in cents
ShownCents(v) == IF StartsWith(v.s, "-") THEN 0 - DigitsValue(v.s) ELSE DigitsValue(v.s)

\* n hundredths of a cent rounded half-up to cents, n >= 0
HalfUpToCents(n) == (n + 50) \div 100

(***************************************************************************)
(* C29 as stated: whenever process_costs_and_dates adds cost fields, the   *)
(* amount total_cost shows is the product of the amounts that qty and      *)
(* cost_per_unit show in the returned map, rounded half-up to two          *)
(* decimals.  Read off the calls whose shown amounts are not below zero.   *)
(***************************************************************************)
C29_AsStated ==
    \A i \in ReturnedCallsOf("process_costs_and_dates") :
        (/\ BothPresent(InputBefore(calls[i]))
         /\ ShownCents(Returned(calls[i])["qty"]) >= 0
         /\ ShownCents(Returned(calls[i])["cost_per_unit"]) >= 0)
        => ShownCents(Returned(calls[i])["total_cost"])
             = HalfUpToCents(ShownCents(Returned(calls[i])["qty"])
                              * ShownCents(Returned(calls[i])["cost_per_unit"]))

\* qty 1.15 and cost_per_unit 1.5 have come back as "1,15" and "1,50 €" with
\* total_cost "1,72 €"
C29_Witness ==
    \E i \in ReturnedCallsOf("process_costs_and_dates") :
        /\ BothPresent(InputBefore(calls[i]))
        /\ InputBefore(calls[i])["qty"] = FloatLit(FALSE, 115, -2)
        /\ InputBefore(calls[i])["cost_per_unit"] = FloatLit(FALSE, 15, -1)
        /\ Returned(calls[i])["qty"] = PyStr("1,15")
        /\ Returned(calls[i])["cost_per_unit"] = PyStr("1,50 €")
        /\ Returned(calls[i])["total_cost"] = PyStr("1,72 €")

\* the map a generate_document call was given, before and after the call,
\* and the map it built for rendering
DocxGivenBefore(c) == c.pre[c.args[2].ref]
DocxGivenAfter(c)  == c.post[c.args[2].ref]
DocxBuilt(c)       == c.post[c.ret.variables.ref]

\* what process_costs_and_dates does on the map of the call c, at the time of c
PipelineOn(c) == process_costs_and_dates(c.pre, c.args[2].ref, c.now)

DerivedKeys == {"date", "total_cost", "total_cost_words", "qty", "cost_per_unit"}

\* the maps a and b have the same derived keys with the same values
SameDerived(a, b) ==
    \A k \in DerivedKeys :
        /\ k \in DOMAIN a <=> k \in DOMAIN b
        /\ k \in DOMAIN a => a[k] = b[k]

\* qty and cost_per_unit, where v has them, are finite numbers or numeric
\* strings
CostInputsNumeric(v) ==
    \A k \in {"qty", "cost_per_unit"} \cap DOMAIN v : FiniteNumeric(v[k])

(***************************************************************************)
(* C30 as stated: on every map whose qty and cost_per_unit are finite      *)
(* numbers or numeric strings, generate_document of generate_docx.py       *)
(* builds for rendering the date, total_cost, total_cost_words, qty and    *)
(* cost_per_unit that process_costs_and_dates returns for the same map at  *)
(* the same time, the one raising if and only if the other does, and both  *)
(* leave the map given as it was.                                          *)
(***************************************************************************)
C30_AsStated ==
    \A i \in CallsOf("generate_document") :
        CostInputsNumeric(DocxGivenBefore(calls[i]))
        => LET p == PipelineOn(calls[i])
           IN  /\ (calls[i].ret.exc = "") <=> (p.ret.exc = "")
               /\ calls[i].ret.exc = ""
                     => SameDerived(DocxBuilt(calls[i]), p.heap[p.ret.val.ref])
               /\ DocxGivenAfter(calls[i]) = DocxGivenBefore(calls[i])
               /\ p.heap[calls[i].args[2].ref] = DocxGivenBefore(calls[i])

\* on qty -0.5 and cost_per_unit 1 generate_document has built qty "-0,50"
\* and total_cost "-0,50 €", where process_costs_and_dates returns "0,50"
\* and "0,50 €"
C30_Witness ==
    \E i \in CallsOf("generate_document") :
        /\ calls[i].ret.exc = ""
        /\ BothPresent(DocxGivenBefore(calls[i]))
        /\ DocxGivenBefore(calls[i])["qty"] = FloatLit(TRUE, 5, -1)
        /\ DocxGivenBefore(calls[i])["cost_per_unit"] = PyInt(FALSE, <<1>>)
        /\ DocxBuilt(calls[i])["qty"] = PyStr("-0,50")
        /\ DocxBuilt(calls[i])["total_cost"] = PyStr("-0,50 €")
        /\ PipelineOn(calls[i]).ret.exc = ""
        /\ PipelineOn(calls[i]).heap[PipelineOn(calls[i]).ret.val.ref]["qty"]
              = PyStr("0,50")
        /\ PipelineOn(calls[i]).heap[PipelineOn(calls[i]).ret.val.ref]["total_cost"]
              = PyStr("0,50 €")
====
